---- MODULE Spec2Model ----
(***************************************************************************)
(* Access-control core of the mess management system: QR credential codec  *)
(* (core/services.py QRService), staff bearer tokens (core/models.py       *)
(* StaffToken, core/authentication.py), the access decision                *)
(* (core/services.py MessService) and the scan endpoint (core/views.py     *)
(* scan_qr).  The database tables are the state; one action per handler.   *)
(***************************************************************************)
EXTENDS Integers, Sequences, FiniteSets, TLC

\* ------------------------------------------------------------------ bounds
MaxDay == 1          \* rows carry the calendar dates 0 .. MaxDay; the clock runs one day further
TicksPerDay == 2     \* clock instants per calendar day
MaxRows == 2         \* payment + mess-cut + closure rows in the store
MaxEpoch == 2        \* largest qr_secret_version and qr_version
MaxIssued == 1       \* QR payloads handed out
SigLen == 2          \* characters of a hex digest
MaxTokens == 1       \* staff token rows
MaxInflight == 2     \* token handlers between their read and their save
MaxScans == 1        \* scan_qr requests served
MaxPending == 2      \* save() calls between their pre_save check and their INSERT

Members == {"s1", "s2"}
Days == 0 .. MaxDay
MaxNow == (MaxDay + 2) * TicksPerDay - 1

\* ------------------------------------------------------------- enumerations
\* Student.Status (plus NoStudent for an id with no row)
PENDING == "PENDING"
APPROVED == "APPROVED"
DENIED == "DENIED"
NoStudent == "NO_ROW"
StudentStatus == {PENDING, APPROVED, DENIED}

\* Payment.Status
PaymentStatus == {"NONE", "UPLOADED", "VERIFIED", "DENIED"}

\* ScanEvent.Meal and ScanEvent.Result
Meal == {"BREAKFAST", "LUNCH", "DINNER"}
ALLOWED == "ALLOWED"
BLOCKED_NO_PAYMENT == "BLOCKED_NO_PAYMENT"
BLOCKED_CUT == "BLOCKED_CUT"
BLOCKED_STATUS == "BLOCKED_STATUS"
Result == {ALLOWED, BLOCKED_NO_PAYMENT, BLOCKED_CUT, BLOCKED_STATUS}

None == "None"

VARIABLES
    students,     \* table students: id -> [status, qr_version, qr_nonce]
    settings,     \* table settings (singleton row pk=1): [exists, qr_secret_version]
    payments,     \* table payments: set of [student, cycle_start, cycle_end, status]
    cuts,         \* table mess_cuts: set of [student, from_date, to_date]
    closures,     \* table mess_closures: set of [from_date, to_date]
    now,          \* the server clock, timezone.now(), in ticks
    decision,     \* the last check_meal_access call: its student, its day and its return value
    issued,       \* QR payloads handed out: [payload, member, epoch at issue, revoked]
    lastVerify,   \* the last verify_qr_code call: its argument and its outcome
    tokens,       \* table staff_tokens: id -> [exists, token_hash, active, has_expiry, expires_at]
    inflight,     \* token handlers between their read and their save
    lastAuth,     \* the last authenticate_credentials call
    lastReact,    \* the last reactivation request
    revoked,      \* tokens whose revocation was saved with no activation saved since
    scan_events,  \* table scan_events
    scan,         \* the scan_qr request being served
    pending,      \* save() calls whose pre_save check passed and whose INSERT has not run
    lastCutoff,   \* the last call of a cutoff calculator: its inputs and its outcome
    user_data,    \* context.user_data of each student's Telegram mess-cut conversation
    rotation,     \* the last bulk rotation request: its loop order, its failure, its response
    preview       \* the last student_snapshot request: its student and its response

vars == <<students, settings, payments, cuts, closures, now, decision, issued, lastVerify,
          tokens, inflight, lastAuth, lastReact, revoked, scan_events, scan,
          pending, lastCutoff, user_data, rotation, preview>>

storeVars == <<payments, cuts, closures, pending>>
qrVars == <<issued>>
tokenVars == <<tokens, inflight, revoked>>
scanVars == <<scan_events, scan>>

\* timezone.now().date()
Today == now \div TicksPerDay

\* ------------------------------------------------------ access decision
\* get_valid_payment_for_date with cycle_end__gt in place of cycle_end__gte
get_valid_payment_for_date_open_end(student, date) ==
    LET rows == {p \in payments : /\ p.student = student
                                  /\ p.status = "VERIFIED"
                                  /\ p.cycle_start <= date
                                  /\ p.cycle_end > date}
    IN IF rows = {} THEN {} ELSE {CHOOSE p \in rows : TRUE}

\* Payment.objects.filter(student=, status=VERIFIED, cycle_start__lte=, cycle_end__gte=).first():
\* the set holding the first matching row, empty when .first() is None
get_valid_payment_for_date(student, date) ==
    LET rows == {p \in payments : /\ p.student = student
                                  /\ p.status = "VERIFIED"
                                  /\ p.cycle_start <= date
                                  /\ p.cycle_end >= date}
    IN IF rows = {} THEN {} ELSE {CHOOSE p \in rows : TRUE}

\* MessCut.objects.filter(student=, from_date__lte=, to_date__gte=).exists()
is_student_cut_for_date(student, date) ==
    \E c \in cuts : c.student = student /\ c.from_date <= date /\ c.to_date >= date

\* MessClosure.objects.filter(from_date__lte=, to_date__gte=).exists()
is_mess_closed_for_date(date) ==
    \E c \in closures : c.from_date <= date /\ c.to_date >= date

\* check_meal_access with the mess-cut test run before the payment test
check_meal_access_cut_first(student, meal) ==
    LET today == Today IN
    IF students[student].status # APPROVED
    THEN [result |-> BLOCKED_STATUS, reason |-> "Student not approved"]
    ELSE IF is_student_cut_for_date(student, today)
    THEN [result |-> BLOCKED_CUT, reason |-> "Student has mess cut for today"]
    ELSE IF get_valid_payment_for_date(student, today) = {}
    THEN [result |-> BLOCKED_NO_PAYMENT, reason |-> "No valid payment for current period"]
    ELSE IF is_mess_closed_for_date(today)
    THEN [result |-> BLOCKED_CUT, reason |-> "Mess is closed today"]
    ELSE [result |-> ALLOWED, reason |-> "Access granted"]

\* check_meal_access without the closure test
check_meal_access_no_closure(student, meal) ==
    LET today == Today IN
    IF students[student].status # APPROVED
    THEN [result |-> BLOCKED_STATUS, reason |-> "Student not approved"]
    ELSE IF get_valid_payment_for_date(student, today) = {}
    THEN [result |-> BLOCKED_NO_PAYMENT, reason |-> "No valid payment for current period"]
    ELSE IF is_student_cut_for_date(student, today)
    THEN [result |-> BLOCKED_CUT, reason |-> "Student has mess cut for today"]
    ELSE [result |-> ALLOWED, reason |-> "Access granted"]

\* check_meal_access that also refuses a meal outside its serving window: breakfast and
\* lunch in the first instant of the day, dinner in the last
check_meal_access_meal_window(student, meal) ==
    LET today == Today
        window == IF meal = "DINNER" THEN TicksPerDay - 1 ELSE 0
    IN
    IF students[student].status # APPROVED
    THEN [result |-> BLOCKED_STATUS, reason |-> "Student not approved"]
    ELSE IF get_valid_payment_for_date(student, today) = {}
    THEN [result |-> BLOCKED_NO_PAYMENT, reason |-> "No valid payment for current period"]
    ELSE IF is_student_cut_for_date(student, today)
    THEN [result |-> BLOCKED_CUT, reason |-> "Student has mess cut for today"]
    ELSE IF is_mess_closed_for_date(today)
    THEN [result |-> BLOCKED_CUT, reason |-> "Mess is closed today"]
    ELSE IF now % TicksPerDay # window
    THEN [result |-> BLOCKED_CUT, reason |-> "Outside meal window"]
    ELSE [result |-> ALLOWED, reason |-> "Access granted"]

\* MessService.check_meal_access(student, meal)
check_meal_access(student, meal) ==
    LET today == Today IN
    IF students[student].status # APPROVED
    THEN [result |-> BLOCKED_STATUS, reason |-> "Student not approved"]
    ELSE IF get_valid_payment_for_date(student, today) = {}
    THEN [result |-> BLOCKED_NO_PAYMENT, reason |-> "No valid payment for current period"]
    ELSE IF is_student_cut_for_date(student, today)
    THEN [result |-> BLOCKED_CUT, reason |-> "Student has mess cut for today"]
    ELSE IF is_mess_closed_for_date(today)
    THEN [result |-> BLOCKED_CUT, reason |-> "Mess is closed today"]
    ELSE [result |-> ALLOWED, reason |-> "Access granted"]

\* ------------------------------------------------------- text conversions
\* A character of a text: c is the character; a character of an HMAC hex digest carries
\* the signed message and its position instead of its value
Ch(c) == [c |-> c, of |-> <<>>, pos |-> 0]

Txt(s) == [i \in 1 .. Len(s) |-> Ch(s[i])]

Digits == <<"0", "1", "2", "3", "4", "5", "6", "7", "8", "9">>

Bar == Ch("|")

NonAscii == "U+00E9"

IsDigit(ch) == \E i \in 1 .. 10 : Ch(Digits[i]) = ch

DigitVal(ch) == (CHOOSE i \in 1 .. 10 : Ch(Digits[i]) = ch) - 1

\* str(n) of a non-negative int
RECURSIVE str(_)
str(n) ==
    IF n < 10 THEN <<Ch(Digits[n + 1])>>
    ELSE Append(str(n \div 10), Ch(Digits[(n % 10) + 1]))

RECURSIVE NatOfDigits(_)
NatOfDigits(s) ==
    IF s = <<>> THEN 0
    ELSE NatOfDigits(SubSeq(s, 1, Len(s) - 1)) * 10 + DigitVal(s[Len(s)])

\* int(s): an optional sign and decimal digits, leading zeros allowed; ok is FALSE where
\* Python raises ValueError
int(s) ==
    LET signed == s # <<>> /\ s[1] \in {Ch("+"), Ch("-")}
        body == IF signed THEN Tail(s) ELSE s
    IN IF body = <<>> \/ \E i \in 1 .. Len(body) : ~ IsDigit(body[i])
       THEN [ok |-> FALSE, val |-> 0]
       ELSE [ok |-> TRUE,
             val |-> IF signed /\ s[1] = Ch("-") THEN 0 - NatOfDigits(body)
                     ELSE NatOfDigits(body)]

\* s.split('|')
RECURSIVE split(_)
split(s) ==
    IF \A i \in 1 .. Len(s) : s[i] # Bar THEN <<s>>
    ELSE LET i == CHOOSE k \in 1 .. Len(s) : s[k] = Bar /\ \A j \in 1 .. k - 1 : s[j] # Bar
         IN <<SubSeq(s, 1, i - 1)>> \o split(SubSeq(s, i + 1, Len(s)))

\* f"{a}|{b}|..." over a list of texts
RECURSIVE join(_)
join(parts) ==
    IF Len(parts) = 1 THEN parts[1]
    ELSE parts[1] \o <<Bar>> \o join(Tail(parts))

\* str(student.id): the text of the UUID, one opaque character per id
id_text(m) == <<Ch(m)>>

\* hmac.new(QR_SECRET, message, sha256).hexdigest(): SigLen characters, each determined
\* by the message and its position; digests of different messages differ
hexdigest(message) == [i \in 1 .. SigLen |-> [c |-> "mac", of |-> message, pos |-> i]]

\* hmac.compare_digest on two str: TypeError when either holds a non-ASCII character
compare_digest(a, b) ==
    IF \/ \E i \in 1 .. Len(a) : a[i].c = NonAscii
       \/ \E i \in 1 .. Len(b) : b[i].c = NonAscii
    THEN "TypeError"
    ELSE IF a = b THEN "True" ELSE "False"

\* ------------------------------------------------------------ QR codec
\* Settings.get_settings(): get_or_create(pk=1); a created row has qr_secret_version 1
get_settings == IF settings.exists THEN settings ELSE [exists |-> TRUE, qr_secret_version |-> 1]

\* QRService.generate_qr_payload(student) at the clock instant now
generate_qr_payload(m) ==
    LET v == get_settings.qr_secret_version
        message == join(<<str(v), id_text(m), str(now), Txt(<<students[m].qr_nonce>>)>>)
    IN join(<<message, hexdigest(message)>>)

\* verify_qr_code without the comparison of the payload's version with the current epoch
verify_qr_code_any_epoch(qr_data) ==
    LET parts == split(qr_data) IN
    IF Len(parts) # 5 THEN None
    ELSE LET version == parts[1]
             student_id == parts[2]
             nonce == parts[4]
             signature == parts[5]
             message == join(<<version, student_id, parts[3], nonce>>)
             found == {m \in Members : /\ students[m].status # NoStudent
                                       /\ id_text(m) = student_id
                                       /\ Txt(<<students[m].qr_nonce>>) = nonce
                                       /\ students[m].qr_version = int(version).val}
         IN IF ~ int(version).ok THEN None
            ELSE IF compare_digest(signature, hexdigest(message)) = "TypeError" THEN "TypeError"
            ELSE IF compare_digest(signature, hexdigest(message)) = "False" THEN None
            ELSE IF found = {} THEN None
            ELSE CHOOSE m \in found : TRUE

\* verify_qr_code that rejects a payload whose issued_at lies before the clock
verify_qr_code_expiring(qr_data) ==
    LET parts == split(qr_data) IN
    IF Len(parts) # 5 THEN None
    ELSE LET version == parts[1]
             student_id == parts[2]
             nonce == parts[4]
             signature == parts[5]
             message == join(<<version, student_id, parts[3], nonce>>)
             found == {m \in Members : /\ students[m].status # NoStudent
                                       /\ id_text(m) = student_id
                                       /\ Txt(<<students[m].qr_nonce>>) = nonce
                                       /\ students[m].qr_version = int(version).val}
         IN IF ~ int(version).ok THEN None
            ELSE IF int(version).val # get_settings.qr_secret_version THEN None
            ELSE IF compare_digest(signature, hexdigest(message)) = "TypeError" THEN "TypeError"
            ELSE IF compare_digest(signature, hexdigest(message)) = "False" THEN None
            ELSE IF found = {} THEN None
            ELSE IF int(parts[3]).ok /\ int(parts[3]).val < now THEN None
            ELSE CHOOSE m \in found : TRUE

\* QRService.verify_qr_code(qr_data): the student id, None, or the exception that escapes
verify_qr_code(qr_data) ==
    LET parts == split(qr_data) IN
    IF Len(parts) # 5 THEN None
    ELSE LET version == parts[1]
             student_id == parts[2]
             nonce == parts[4]
             signature == parts[5]
             message == join(<<version, student_id, parts[3], nonce>>)
             found == {m \in Members : /\ students[m].status # NoStudent
                                       /\ id_text(m) = student_id
                                       /\ Txt(<<students[m].qr_nonce>>) = nonce
                                       /\ students[m].qr_version = int(version).val}
         IN IF ~ int(version).ok THEN None
            ELSE IF int(version).val # get_settings.qr_secret_version THEN None
            ELSE IF compare_digest(signature, hexdigest(message)) = "TypeError" THEN "TypeError"
            ELSE IF compare_digest(signature, hexdigest(message)) = "False" THEN None
            ELSE IF found = {} THEN None
            ELSE CHOOSE m \in found : TRUE

\* ----------------------------------------------------------- the store
NoDecision == [student |-> None, today |-> 0, result |-> None]

NoSnapshot == [status |-> None, payment_ok |-> FALSE, today_cut |-> FALSE,
               closure_today |-> FALSE, overall_status |-> None]

\* No student_snapshot request has been served
NoPreview == [student |-> None, status |-> 0, snapshot |-> NoSnapshot]

NoVerify == [qr |-> <<>>, result |-> "NotCalled"]

NoAuth == [raw |-> None, at |-> 0, result |-> "NotCalled"]

NoReact == [token |-> None, via |-> None, expired |-> FALSE, result |-> "NotCalled",
            was_active |-> FALSE]

\* ------------------------------------------------------ cutoff calculators
\* timezone.now().time(): the time of day of the server clock
TimeOfDay == now % TicksPerDay

\* The times of day a cutoff can be configured to; the last instant of the day stands for
\* 23:00, the default of settings.MESS_CUTOFF_TIME and of Settings.cutoff_time
TimesOfDay == 0 .. TicksPerDay - 1

\* time(23, 0)
time_23_0 == TicksPerDay - 1

\* min_date of MessService.check_cutoff_rule: cutoff_time = time(23, 0) whatever is
\* configured
check_cutoff_rule_min_date ==
    IF TimeOfDay >= time_23_0 THEN Today + 2 ELSE Today + 1

\* MessService.check_cutoff_rule(target_date)
check_cutoff_rule(target_date) == target_date >= check_cutoff_rule_min_date

\* min_date of validate_mess_cut_dates: the cutoff is settings.MESS_CUTOFF_TIME
validate_mess_cut_dates_min_date(MESS_CUTOFF_TIME) ==
    IF TimeOfDay >= MESS_CUTOFF_TIME THEN Today + 2 ELSE Today + 1

\* validate_mess_cut_dates(from_date, to_date): TRUE when no ValidationError is raised
\* (the 30-day limit is beyond the dates used here)
validate_mess_cut_dates(from_date, to_date, MESS_CUTOFF_TIME) ==
    /\ from_date <= to_date
    /\ from_date >= validate_mess_cut_dates_min_date(MESS_CUTOFF_TIME)

NoCutoff == [fn |-> None, at |-> 0, cutoff_time |-> 0, from_date |-> 0, to_date |-> 0,
             min_date |-> 0, ok |-> FALSE]

\* context.user_data.clear(), ConversationHandler.END
NoConversation == [state |-> "END", min_date |-> 0, from_date |-> 0, to_date |-> 0]

\* No bulk rotation request has been served
NoRotation == [order |-> <<>>, fails_at |-> None, fails_in |-> None, epoch |-> 0,
               response |-> [status |-> 0, affected_students |-> 0, new_version |-> 0]]

\* No recorded call outlives a change of the state it was made in
ForgetCalls ==
    /\ lastCutoff' = NoCutoff
    /\ rotation' = NoRotation
    /\ preview' = NoPreview
    /\ decision' = NoDecision
    /\ lastVerify' = NoVerify
    /\ lastAuth' = NoAuth
    /\ lastReact' = NoReact

EmptyStudent == [status |-> NoStudent, qr_version |-> 0, qr_nonce |-> ""]

\* Student.save() of a new row: qr_nonce = uuid4().hex[:12], a fresh value per student
NonceOf == [m \in Members |-> IF m = "s1" THEN "n1" ELSE "n2"]

\* Student(...).save() of a new row: status PENDING, qr_version 1, a fresh qr_nonce
NewStudent(nonce) == [status |-> PENDING, qr_version |-> 1, qr_nonce |-> nonce]

RowCount == Cardinality(payments) + Cardinality(cuts) + Cardinality(closures)

\* payment_pre_save: ValidationError unless cycle_start < cycle_end and no UPLOADED or
\* VERIFIED payment of the student satisfies cycle_start < new end and cycle_end > new start
payment_pre_save(row) ==
    /\ row.cycle_start < row.cycle_end
    /\ ~ \E p \in payments : /\ p.student = row.student
                             /\ p.cycle_start < row.cycle_end
                             /\ p.cycle_end > row.cycle_start
                             /\ p.status \in {"UPLOADED", "VERIFIED"}

\* Payment Meta.unique_together = ['student', 'cycle_start']
payment_unique(row) ==
    ~ \E p \in payments : p.student = row.student /\ p.cycle_start = row.cycle_start

\* mess_cut_pre_save with the ranges compared as half-open
mess_cut_pre_save_strict(row) ==
    /\ row.from_date <= row.to_date
    /\ ~ \E c \in cuts : /\ c.student = row.student
                         /\ c.from_date < row.to_date
                         /\ c.to_date > row.from_date

\* mess_cut_pre_save: ValidationError unless from_date <= to_date and no mess cut of the
\* student overlaps the inclusive range
mess_cut_pre_save(row) ==
    /\ row.from_date <= row.to_date
    /\ ~ \E c \in cuts : /\ c.student = row.student
                         /\ c.from_date <= row.to_date
                         /\ c.to_date >= row.from_date

\* mess_cut_pre_save of a row that already has a primary key in the table: the row
\* itself is excluded from the overlap query
mess_cut_pre_save_pk(old, row) ==
    /\ row.from_date <= row.to_date
    /\ ~ \E c \in cuts \ {old} : /\ c.student = row.student
                                 /\ c.from_date <= row.to_date
                                 /\ c.to_date >= row.from_date

\* ------------------------------------------------------------- actions
\* register_student: Student.objects.create for an id with no row
register_student(m) ==
    /\ students[m].status = NoStudent
    /\ students' = [students EXCEPT ![m] = NewStudent(NonceOf[m])]
    /\ ForgetCalls
    /\ UNCHANGED <<settings, now, storeVars, qrVars, tokenVars, scanVars, user_data>>

\* StudentViewSet.approve / admin_panel approve_student: PENDING -> APPROVED, then
\* QRService.generate_qr_for_student, which reads the settings row through get_settings
approve(m) ==
    /\ students[m].status = PENDING
    /\ students' = [students EXCEPT ![m].status = APPROVED]
    /\ settings' = get_settings
    /\ ForgetCalls
    /\ UNCHANGED <<now, storeVars, qrVars, tokenVars, scanVars, user_data>>

\* StudentViewSet.deny / admin_panel deny_student: PENDING -> DENIED
deny(m) ==
    /\ students[m].status = PENDING
    /\ students' = [students EXCEPT ![m].status = DENIED]
    /\ ForgetCalls
    /\ UNCHANGED <<settings, now, storeVars, qrVars, tokenVars, scanVars, user_data>>

\* A Payment row is saved for a registered student (PaymentViewSet.create with any
\* status, upload_payment with UPLOADED); payment_pre_save and the unique key guard it
create_payment(m, cs, ce, st) ==
    LET row == [student |-> m, cycle_start |-> cs, cycle_end |-> ce, status |-> st] IN
    /\ students[m].status # NoStudent
    /\ RowCount < MaxRows
    /\ payment_pre_save(row)
    /\ payment_unique(row)
    /\ payments' = payments \cup {row}
    /\ ForgetCalls
    /\ UNCHANGED <<students, settings, cuts, closures, now, qrVars, tokenVars, scanVars,
                   pending, user_data>>

\* payment.save() of an existing row with a new status: payment_pre_save runs with the
\* row itself excluded from the overlap query, then every column is written
save_payment(old, st) ==
    LET row == [old EXCEPT !.status = st] IN
    /\ old \in payments
    /\ row.cycle_start < row.cycle_end
    /\ ~ \E p \in payments \ {old} : /\ p.student = row.student
                                       /\ p.cycle_start < row.cycle_end
                                       /\ p.cycle_end > row.cycle_start
                                       /\ p.status \in {"UPLOADED", "VERIFIED"}
    /\ payments' = (payments \ {old}) \cup {row}
    /\ ForgetCalls
    /\ UNCHANGED <<students, settings, cuts, closures, now, qrVars, tokenVars, scanVars,
                   pending, user_data>>

\* PaymentViewSet.verify: only from UPLOADED
verify_payment(p) == p.status = "UPLOADED" /\ save_payment(p, "VERIFIED")

\* PaymentViewSet.deny: only from UPLOADED
deny_payment(p) == p.status = "UPLOADED" /\ save_payment(p, "DENIED")

\* PaymentViewSet.mark_manual_paid: from any status
mark_manual_paid(p) == save_payment(p, "VERIFIED")

\* Payment.objects.create, first half: save() has sent pre_save and payment_pre_save
\* has found no overlapping row; no transaction or lock holds that answer
payment_check(m, cs, ce, st) ==
    LET row == [student |-> m, cycle_start |-> cs, cycle_end |-> ce, status |-> st] IN
    /\ students[m].status # NoStudent
    /\ Cardinality(pending) < MaxPending
    /\ payment_pre_save(row)
    /\ pending' = pending \cup {[table |-> "payments", row |-> row]}
    /\ ForgetCalls
    /\ UNCHANGED <<students, settings, payments, cuts, closures, now, qrVars, tokenVars,
                   scanVars, user_data>>

\* ... second half: the INSERT; the unique key (student, cycle_start) is the only
\* constraint the database enforces, an IntegrityError drops the request
payment_insert(h) ==
    /\ h \in pending
    /\ h.table = "payments"
    /\ RowCount < MaxRows
    /\ payments' = IF payment_unique(h.row) THEN payments \cup {h.row} ELSE payments
    /\ pending' = pending \ {h}
    /\ ForgetCalls
    /\ UNCHANGED <<students, settings, cuts, closures, now, qrVars, tokenVars, scanVars,
                   user_data>>

\* MessCut save(), first half: mess_cut_pre_save has found no overlapping row
mess_cut_check(m, fd, td) ==
    LET row == [student |-> m, from_date |-> fd, to_date |-> td] IN
    /\ students[m].status # NoStudent
    /\ Cardinality(pending) < MaxPending
    /\ mess_cut_pre_save(row)
    /\ pending' = pending \cup {[table |-> "mess_cuts", row |-> row]}
    /\ ForgetCalls
    /\ UNCHANGED <<students, settings, payments, cuts, closures, now, qrVars, tokenVars,
                   scanVars, user_data>>

\* ... second half: the INSERT
mess_cut_insert(h) ==
    /\ h \in pending
    /\ h.table = "mess_cuts"
    /\ RowCount < MaxRows
    /\ cuts' = cuts \cup {h.row}
    /\ pending' = pending \ {h}
    /\ ForgetCalls
    /\ UNCHANGED <<students, settings, payments, closures, now, qrVars, tokenVars, scanVars,
                   user_data>>

\* One call of MessService.check_cutoff_rule(target_date) in a deployment whose
\* configured cutoff is cutoff_time
call_check_cutoff_rule(cutoff_time, target_date) ==
    /\ lastCutoff' = [fn |-> "check_cutoff_rule", at |-> now, cutoff_time |-> cutoff_time,
                      from_date |-> target_date, to_date |-> target_date,
                      min_date |-> check_cutoff_rule_min_date,
                      ok |-> check_cutoff_rule(target_date)]
    /\ rotation' = NoRotation
    /\ preview' = NoPreview
    /\ decision' = NoDecision
    /\ lastVerify' = NoVerify
    /\ lastAuth' = NoAuth
    /\ lastReact' = NoReact
    /\ UNCHANGED <<students, settings, now, storeVars, qrVars, tokenVars, scanVars,
                   user_data>>

\* One call of validate_mess_cut_dates(from_date, to_date) in such a deployment
call_validate_mess_cut_dates(cutoff_time, from_date, to_date) ==
    /\ lastCutoff' = [fn |-> "validate_mess_cut_dates", at |-> now,
                      cutoff_time |-> cutoff_time,
                      from_date |-> from_date, to_date |-> to_date,
                      min_date |-> validate_mess_cut_dates_min_date(cutoff_time),
                      ok |-> validate_mess_cut_dates(from_date, to_date, cutoff_time)]
    /\ rotation' = NoRotation
    /\ preview' = NoPreview
    /\ decision' = NoDecision
    /\ lastVerify' = NoVerify
    /\ lastAuth' = NoAuth
    /\ lastReact' = NoReact
    /\ UNCHANGED <<students, settings, now, storeVars, qrVars, tokenVars, scanVars,
                   user_data>>

\* MessCutSerializer.validate: from_date <= to_date and from_date >= tomorrow
MessCutSerializer_validate(fd, td) ==
    /\ fd <= td
    /\ fd >= Today + 1

\* Telegram start_mess_cut: min_date is computed from the clock and kept in user_data
start_mess_cut(m) ==
    /\ students[m].status = APPROVED
    /\ user_data' = [user_data EXCEPT ![m] =
                        [state |-> "FROM",
                         min_date |-> IF TimeOfDay >= time_23_0 THEN Today + 2 ELSE Today + 1,
                         from_date |-> 0, to_date |-> 0]]
    /\ ForgetCalls
    /\ UNCHANGED <<students, settings, now, storeVars, qrVars, tokenVars, scanVars>>

\* Telegram mess_cut_from: a date before user_data['min_date'] is asked for again
mess_cut_from(m, date) ==
    /\ user_data[m].state = "FROM"
    /\ date >= user_data[m].min_date
    /\ user_data' = [user_data EXCEPT ![m].state = "TO", ![m].from_date = date]
    /\ ForgetCalls
    /\ UNCHANGED <<students, settings, now, storeVars, qrVars, tokenVars, scanVars>>

\* Telegram mess_cut_to: a date before the from date is asked for again
mess_cut_to(m, date) ==
    /\ user_data[m].state = "TO"
    /\ date >= user_data[m].from_date
    /\ user_data' = [user_data EXCEPT ![m].state = "CONFIRM", ![m].to_date = date]
    /\ ForgetCalls
    /\ UNCHANGED <<students, settings, now, storeVars, qrVars, tokenVars, scanVars>>

\* Telegram mess_cut_confirm: MessCut.objects.create with the dates kept in user_data;
\* an exception of save() is logged and nothing is written; user_data is cleared
mess_cut_confirm(m) ==
    LET row == [student |-> m, from_date |-> user_data[m].from_date,
                to_date |-> user_data[m].to_date] IN
    /\ user_data[m].state = "CONFIRM"
    /\ RowCount < MaxRows
    /\ cuts' = IF mess_cut_pre_save(row) THEN cuts \cup {row} ELSE cuts
    /\ user_data' = [user_data EXCEPT ![m] = NoConversation]
    /\ ForgetCalls
    /\ UNCHANGED <<students, settings, payments, closures, now, qrVars, tokenVars, scanVars,
                   pending>>

\* A MessCut row is saved for a registered student; mess_cut_pre_save guards it
create_mess_cut(m, fd, td) ==
    LET row == [student |-> m, from_date |-> fd, to_date |-> td] IN
    /\ students[m].status # NoStudent
    /\ RowCount < MaxRows
    /\ mess_cut_pre_save(row)
    /\ cuts' = cuts \cup {row}
    /\ ForgetCalls
    /\ UNCHANGED <<students, settings, payments, closures, now, qrVars, tokenVars, scanVars,
                   pending, user_data>>

\* MessCutViewSet.create: MessCutSerializer.validate, then perform_create
rest_create_mess_cut(m, fd, td) ==
    /\ MessCutSerializer_validate(fd, td)
    /\ create_mess_cut(m, fd, td)

\* MessCutViewSet.update / MessCutAdmin change form: serializer.save() of an existing row
update_mess_cut(old, m, fd, td) ==
    LET row == [student |-> m, from_date |-> fd, to_date |-> td] IN
    /\ old \in cuts
    /\ students[m].status # NoStudent
    /\ mess_cut_pre_save_pk(old, row)
    /\ cuts' = (cuts \ {old}) \cup {row}
    /\ ForgetCalls
    /\ UNCHANGED <<students, settings, payments, closures, now, qrVars, tokenVars, scanVars,
                   pending, user_data>>

\* MessCutViewSet.destroy
delete_mess_cut(old) ==
    /\ old \in cuts
    /\ cuts' = cuts \ {old}
    /\ ForgetCalls
    /\ UNCHANGED <<students, settings, payments, closures, now, qrVars, tokenVars, scanVars,
                   pending, user_data>>

\* MessClosureViewSet.perform_create after MessClosureSerializer.validate
create_mess_closure(fd, td) ==
    /\ fd <= td
    /\ RowCount < MaxRows
    /\ closures' = closures \cup {[from_date |-> fd, to_date |-> td]}
    /\ ForgetCalls
    /\ UNCHANGED <<students, settings, payments, cuts, now, qrVars, tokenVars, scanVars,
                   pending, user_data>>

\* The server clock advances by d ticks
Tick(d) ==
    /\ now + d <= MaxNow
    /\ now' = now + d
    /\ ForgetCalls
    /\ UNCHANGED <<students, settings, storeVars, qrVars, tokenVars, scanVars,
                   user_data>>

\* One call of MessService.check_meal_access(student, meal); its return value is kept
Decide(m, meal) ==
    /\ students[m].status # NoStudent
    /\ lastCutoff' = NoCutoff
    /\ rotation' = NoRotation
    /\ preview' = NoPreview
    /\ decision' = [student |-> m, today |-> Today,
                    result |-> check_meal_access(m, meal).result]
    /\ lastVerify' = NoVerify
    /\ lastAuth' = NoAuth
    /\ lastReact' = NoReact
    /\ UNCHANGED <<students, settings, now, storeVars, qrVars, tokenVars, scanVars,
                   user_data>>

\* A QR code is produced for an approved student (generate_qr_for_student from
\* generate_qr_view or the bot) and handed out
issue_qr(m) ==
    /\ students[m].status = APPROVED
    /\ Cardinality(issued) < MaxIssued
    /\ issued' = issued \cup {[payload |-> generate_qr_payload(m), member |-> m,
                               epoch |-> get_settings.qr_secret_version,
                               revoked |-> FALSE]}
    /\ settings' = get_settings
    /\ ForgetCalls
    /\ UNCHANGED <<students, now, storeVars, tokenVars, scanVars, user_data>>

\* One call of QRService.verify_qr_code(qr_data); its outcome is kept. A payload of
\* five parts reaches Settings.get_settings(), which creates the row when there is none
verify(qr_data) ==
    /\ lastVerify' = [qr |-> qr_data, result |-> verify_qr_code(qr_data)]
    /\ settings' = IF Len(split(qr_data)) # 5 THEN settings ELSE get_settings
    /\ lastCutoff' = NoCutoff
    /\ rotation' = NoRotation
    /\ preview' = NoPreview
    /\ decision' = NoDecision
    /\ lastAuth' = NoAuth
    /\ lastReact' = NoReact
    /\ UNCHANGED <<students, now, storeVars, qrVars, tokenVars, scanVars, user_data>>

\* StudentAdmin.regenerate_qr_codes on one selected student that keeps qr_version
regenerate_qr_codes_keep_version(m) ==
    /\ students[m].status = APPROVED
    /\ students[m].qr_version < MaxEpoch
    /\ students' = students
    /\ issued' = {IF r.member = m /\ verify_qr_code(r.payload) = m
                  THEN [r EXCEPT !.revoked = TRUE] ELSE r : r \in issued}
    /\ ForgetCalls
    /\ UNCHANGED <<settings, now, storeVars, tokenVars, scanVars, user_data>>

\* StudentAdmin.regenerate_qr_codes on one selected student: qr_version += 1, save, new
\* QR image.  The payloads of the student that verified just before are marked revoked.
regenerate_qr_codes_admin(m) ==
    /\ students[m].status = APPROVED
    /\ students[m].qr_version < MaxEpoch
    /\ students' = [students EXCEPT ![m].qr_version = @ + 1]
    /\ issued' = {IF r.member = m /\ verify_qr_code(r.payload) = m
                  THEN [r EXCEPT !.revoked = TRUE] ELSE r : r \in issued}
    /\ ForgetCalls
    /\ UNCHANGED <<settings, now, storeVars, tokenVars, scanVars, user_data>>

\* regenerate_qr_codes (core/views.py, admin_panel settings_page): the epoch is
\* incremented and saved, then each approved student is set to it and saved; done is the
\* set of students saved before the loop ended, all of them unless an exception ended it
regenerate_qr_codes(done) ==
    LET epoch == get_settings.qr_secret_version + 1 IN
    /\ epoch <= MaxEpoch
    /\ done \subseteq {m \in Members : students[m].status = APPROVED}
    /\ settings' = [exists |-> TRUE, qr_secret_version |-> epoch]
    /\ students' = [m \in Members |->
                      IF m \in done THEN [students[m] EXCEPT !.qr_version = epoch]
                      ELSE students[m]]
    /\ ForgetCalls
    /\ UNCHANGED <<now, storeVars, qrVars, tokenVars, scanVars, user_data>>

\* The orders in which approved_students can be iterated (the queryset has no order_by)
Orders(S) ==
    {o \in [1 .. Cardinality(S) -> S] : \A i, j \in 1 .. Cardinality(S) : o[i] = o[j] => i = j}

\* The students the loop of regenerate_qr_codes has saved when it ends: all of them, or
\* those before the one at which student.save() raised, or those up to and including
\* the one at which generate_qr_for_student raised
SavedByLoop(order, fails_at, fails_in) ==
    IF \A i \in 1 .. Len(order) : order[i] # fails_at
    THEN {order[i] : i \in 1 .. Len(order)}
    ELSE LET k == CHOOSE i \in 1 .. Len(order) : order[i] = fails_at
         IN {order[i] : i \in 1 .. (IF fails_in = "save" THEN k - 1 ELSE k)}

\* One regenerate_qr_codes request (core/views.py; admin_panel settings_page has the same
\* loop): one try block around the epoch increment, the loop and the audit log; an
\* exception at fails_at leaves the loop and is answered 500
regenerate_qr_codes_request(order, fails_at, fails_in) ==
    LET epoch == get_settings.qr_secret_version + 1
        done == SavedByLoop(order, fails_at, fails_in)
        failed == \E i \in 1 .. Len(order) : order[i] = fails_at
    IN
    /\ epoch <= MaxEpoch
    /\ order \in Orders({m \in Members : students[m].status = APPROVED})
    /\ settings' = [exists |-> TRUE, qr_secret_version |-> epoch]
    /\ students' = [m \in Members |->
                      IF m \in done THEN [students[m] EXCEPT !.qr_version = epoch]
                      ELSE students[m]]
    /\ rotation' = [order |-> order, fails_at |-> fails_at, fails_in |-> fails_in,
                    epoch |-> epoch,
                    response |-> IF failed
                                 THEN [status |-> 500, affected_students |-> 0,
                                       new_version |-> 0]
                                 ELSE [status |-> 200, affected_students |-> Len(order),
                                       new_version |-> epoch]]
    /\ preview' = NoPreview
    /\ decision' = NoDecision
    /\ lastVerify' = NoVerify
    /\ lastAuth' = NoAuth
    /\ lastReact' = NoReact
    /\ lastCutoff' = NoCutoff
    /\ UNCHANGED <<now, storeVars, qrVars, tokenVars, scanVars, user_data>>

\* ------------------------------------------------------------ staff tokens
TokenIds == {"t1", "t2"}

\* secrets.token_urlsafe(32): a fresh secret per token row
RawOf == [t \in TokenIds |-> IF t = "t1" THEN "r1" ELSE "r2"]

\* The bearer secrets a request may carry: the issued ones and one never issued
Raws == {RawOf[t] : t \in TokenIds} \cup {"r0"}

\* hashlib.sha256(key.encode()).hexdigest(): different keys give different digests
sha256(key) == <<"sha256", key>>

NoToken == [exists |-> FALSE, token_hash |-> <<>>, active |-> FALSE,
            has_expiry |-> FALSE, expires_at |-> 0]

\* The expiry instants a token is created with
ExpiryChoices == {0, TicksPerDay}

AuthenticationFailed == "AuthenticationFailed"

\* StaffToken.is_valid of a loaded row
is_valid(row) ==
    IF ~ row.active THEN FALSE
    ELSE IF row.has_expiry /\ row.expires_at < now THEN FALSE
    ELSE TRUE

\* authenticate_credentials that ignores the active flag
authenticate_credentials_any_active(key) ==
    LET rows == {t \in TokenIds : /\ tokens[t].exists
                                  /\ tokens[t].token_hash = sha256(key)}
    IN IF rows = {} THEN AuthenticationFailed
       ELSE LET t == CHOOSE x \in rows : TRUE
            IN IF tokens[t].has_expiry /\ tokens[t].expires_at < now
               THEN AuthenticationFailed ELSE t

\* StaffTokenAuthentication.authenticate_credentials(key): the token row authenticated,
\* or AuthenticationFailed
authenticate_credentials(key) ==
    LET rows == {t \in TokenIds : /\ tokens[t].exists
                                  /\ tokens[t].token_hash = sha256(key)
                                  /\ tokens[t].active}
    IN IF rows = {} THEN AuthenticationFailed
       ELSE LET t == CHOOSE x \in rows : TRUE
            IN IF ~ is_valid(tokens[t]) THEN AuthenticationFailed ELSE t

\* StaffTokenViewSet.create / staff_access_generator: a new active row
create_token(t, has_expiry, expires_at) ==
    /\ ~ tokens[t].exists
    /\ Cardinality({x \in TokenIds : tokens[x].exists}) < MaxTokens
    /\ tokens' = [tokens EXCEPT ![t] = [exists |-> TRUE, token_hash |-> sha256(RawOf[t]),
                                        active |-> TRUE, has_expiry |-> has_expiry,
                                        expires_at |-> IF has_expiry THEN expires_at ELSE 0]]
    /\ ForgetCalls
    /\ UNCHANGED <<students, settings, now, storeVars, qrVars, inflight, revoked, scanVars,
                   user_data>>

\* One authentication of a request carrying the bearer secret key
authenticate(key) ==
    /\ lastAuth' = [raw |-> key, at |-> now, result |-> authenticate_credentials(key)]
    /\ lastCutoff' = NoCutoff
    /\ rotation' = NoRotation
    /\ preview' = NoPreview
    /\ decision' = NoDecision
    /\ lastVerify' = NoVerify
    /\ lastReact' = NoReact
    /\ UNCHANGED <<students, settings, now, storeVars, qrVars, tokenVars, scanVars,
                   user_data>>

\* A handler has loaded the row of token t and has not saved it yet
Load(op, t) ==
    /\ tokens[t].exists
    /\ Cardinality(inflight) < MaxInflight
    /\ inflight' = inflight \cup {[op |-> op, token |-> t, obj |-> tokens[t]]}

\* StaffTokenViewSet.revoke / scanner revoke_token: the row is loaded
revoke_get(t) ==
    /\ Load("revoke", t)
    /\ ForgetCalls
    /\ UNCHANGED <<students, settings, now, storeVars, qrVars, tokens, revoked, scanVars,
                   user_data>>

\* ... then active = False and save() writes every column of the loaded object
revoke_save(h) ==
    /\ h.op = "revoke"
    /\ tokens' = [tokens EXCEPT ![h.token] = [h.obj EXCEPT !.active = FALSE]]
    /\ inflight' = inflight \ {h}
    /\ revoked' = revoked \cup {h.token}
    /\ ForgetCalls
    /\ UNCHANGED <<students, settings, now, storeVars, qrVars, scanVars, user_data>>

\* StaffTokenViewSet.reactivate: the row is loaded; 400 when it has expired
reactivate_get(t) ==
    /\ tokens[t].exists
    /\ IF tokens[t].has_expiry /\ tokens[t].expires_at < now
       THEN /\ lastReact' = [token |-> t, via |-> "reactivate", expired |-> TRUE,
                             result |-> "AlreadyExpired", was_active |-> tokens[t].active]
            /\ UNCHANGED inflight
       ELSE /\ Load("reactivate", t)
            /\ lastReact' = NoReact
    /\ lastCutoff' = NoCutoff
    /\ rotation' = NoRotation
    /\ preview' = NoPreview
    /\ decision' = NoDecision
    /\ lastVerify' = NoVerify
    /\ lastAuth' = NoAuth
    /\ UNCHANGED <<students, settings, now, storeVars, qrVars, tokens, revoked, scanVars,
                   user_data>>

\* ... then active = True and save()
reactivate_save(h) ==
    /\ h.op = "reactivate"
    /\ tokens' = [tokens EXCEPT ![h.token] = [h.obj EXCEPT !.active = TRUE]]
    /\ inflight' = inflight \ {h}
    /\ revoked' = revoked \ {h.token}
    /\ lastReact' = [token |-> h.token, via |-> "reactivate", expired |-> FALSE,
                     result |-> "reactivated", was_active |-> tokens[h.token].active]
    /\ lastCutoff' = NoCutoff
    /\ rotation' = NoRotation
    /\ preview' = NoPreview
    /\ decision' = NoDecision
    /\ lastVerify' = NoVerify
    /\ lastAuth' = NoAuth
    /\ UNCHANGED <<students, settings, now, storeVars, qrVars, scanVars, user_data>>

\* StaffTokenAdmin.activate_tokens on one selected token: queryset.update(active=True)
activate_tokens(t) ==
    /\ tokens[t].exists
    /\ tokens' = [tokens EXCEPT ![t].active = TRUE]
    /\ revoked' = revoked \ {t}
    /\ lastReact' = [token |-> t, via |-> "activate_tokens",
                     expired |-> (tokens[t].has_expiry /\ tokens[t].expires_at < now),
                     result |-> "activated", was_active |-> tokens[t].active]
    /\ lastCutoff' = NoCutoff
    /\ rotation' = NoRotation
    /\ preview' = NoPreview
    /\ decision' = NoDecision
    /\ lastVerify' = NoVerify
    /\ lastAuth' = NoAuth
    /\ UNCHANGED <<students, settings, now, storeVars, qrVars, inflight, scanVars,
                   user_data>>

\* scanner admin activate_token_view: get_object_or_404 loads the row
activate_token_view_get(t) ==
    /\ Load("activate", t)
    /\ ForgetCalls
    /\ UNCHANGED <<students, settings, now, storeVars, qrVars, tokens, revoked, scanVars,
                   user_data>>

\* ... then active = True and save()
activate_token_view_save(h) ==
    /\ h.op = "activate"
    /\ tokens' = [tokens EXCEPT ![h.token] = [h.obj EXCEPT !.active = TRUE]]
    /\ inflight' = inflight \ {h}
    /\ revoked' = revoked \ {h.token}
    /\ lastReact' = [token |-> h.token, via |-> "activate_token_view",
                     expired |-> (h.obj.has_expiry /\ h.obj.expires_at < now),
                     result |-> "activated", was_active |-> tokens[h.token].active]
    /\ lastCutoff' = NoCutoff
    /\ rotation' = NoRotation
    /\ preview' = NoPreview
    /\ decision' = NoDecision
    /\ lastVerify' = NoVerify
    /\ lastAuth' = NoAuth
    /\ UNCHANGED <<students, settings, now, storeVars, qrVars, scanVars, user_data>>

\* timedelta(days=7) on the clock of the model
timedelta_days_7 == 7 * TicksPerDay

\* The latest expiry instant the model follows
MaxExpiry == 8 * TicksPerDay

\* secrets.token_urlsafe(32) of generate_new_token: secrets no token was issued with
NewRaws == {"n1", "n2"}

\* StaffTokenAdminConfig.extend_expiry on one selected token: a token with an expiry
\* gets expires_at += timedelta(days=7) and is saved; one without is skipped
extend_expiry(t) ==
    /\ tokens[t].exists
    /\ tokens[t].has_expiry => tokens[t].expires_at + timedelta_days_7 <= MaxExpiry
    /\ tokens' = IF tokens[t].has_expiry
                 THEN [tokens EXCEPT ![t].expires_at = @ + timedelta_days_7]
                 ELSE tokens
    /\ ForgetCalls
    /\ UNCHANGED <<students, settings, now, storeVars, qrVars, inflight, revoked, scanVars,
                   user_data>>

\* StaffTokenAdminConfig.generate_new_token on one selected token: a new token_hash,
\* active = True, save(). The handler also sets issued_at = timezone.now(); the token rows
\* carry no issued_at, a column that no handler reads
generate_new_token(t, raw_token) ==
    /\ tokens[t].exists
    /\ \A x \in TokenIds : tokens[x].token_hash # sha256(raw_token)
    /\ tokens' = [tokens EXCEPT ![t] = [@ EXCEPT !.token_hash = sha256(raw_token),
                                                 !.active = TRUE]]
    /\ revoked' = revoked \ {t}
    /\ ForgetCalls
    /\ UNCHANGED <<students, settings, now, storeVars, qrVars, inflight, scanVars,
                   user_data>>

\* ------------------------------------------------------------ scan endpoint
\* get_student_snapshot whose overall_status leaves the closure out
get_student_snapshot_no_closure(student) ==
    LET today == Today
        payment_ok == get_valid_payment_for_date(student, today) # {}
        today_cut == is_student_cut_for_date(student, today)
        closure_today == is_mess_closed_for_date(today)
    IN [status |-> students[student].status,
        payment_ok |-> payment_ok,
        today_cut |-> today_cut,
        closure_today |-> closure_today,
        overall_status |-> IF students[student].status # APPROVED THEN "NOT_APPROVED"
                           ELSE IF ~ payment_ok THEN "NO_PAYMENT"
                           ELSE IF today_cut THEN "CUT_OR_CLOSED"
                           ELSE "ALLOWED"]

\* MessService.get_student_snapshot(student): the fields computed from the tables
get_student_snapshot(student) ==
    LET today == Today
        payment_ok == get_valid_payment_for_date(student, today) # {}
        today_cut == is_student_cut_for_date(student, today)
        closure_today == is_mess_closed_for_date(today)
    IN [status |-> students[student].status,
        payment_ok |-> payment_ok,
        today_cut |-> today_cut,
        closure_today |-> closure_today,
        overall_status |-> IF students[student].status # APPROVED THEN "NOT_APPROVED"
                           ELSE IF ~ payment_ok THEN "NO_PAYMENT"
                           ELSE IF today_cut \/ closure_today THEN "CUT_OR_CLOSED"
                           ELSE "ALLOWED"]

NoResponse == [status |-> 0, result |-> None, reason |-> None, scan_id |-> 0,
               student_snapshot |-> NoSnapshot]

\* n counts the requests served; pc is the statement the current request has reached
NoScan == [pc |-> "idle", n |-> 0, key |-> None, qr_data |-> <<>>, meal |-> None,
           student |-> None, result |-> None, reason |-> None, scan_id |-> 0,
           response |-> NoResponse]

\* IsStaffUser.has_permission after authentication: request.user.staff_token.is_valid
IsStaffUser(key) ==
    /\ authenticate_credentials(key) # AuthenticationFailed
    /\ is_valid(tokens[authenticate_credentials(key)])

\* getattr(request, 'staff_token', None): authentication sets request.user and
\* request.auth, no attribute staff_token
request_staff_token(key) == None

\* scan_qr that is entered whatever the bearer secret
scan_begin_unguarded(key, qr_data, meal) ==
    /\ scan.pc \in {"idle", "done"}
    /\ scan.n < MaxScans
    /\ scan' = [NoScan EXCEPT !.pc = "verify", !.n = scan.n + 1, !.key = key,
                              !.qr_data = qr_data, !.meal = meal]
    /\ ForgetCalls
    /\ UNCHANGED <<students, settings, now, storeVars, qrVars, tokenVars, scan_events,
                   user_data>>

\* A scan_qr request arrives: authentication and permission, then the serializer. A
\* request that fails either is answered 403 (the first authenticator has no
\* authenticate_header) and the view body does not run
scan_begin(key, qr_data, meal) ==
    /\ scan.pc \in {"idle", "done"}
    /\ scan.n < MaxScans
    /\ scan' = IF IsStaffUser(key)
               THEN [NoScan EXCEPT !.pc = "verify", !.n = scan.n + 1, !.key = key,
                                   !.qr_data = qr_data, !.meal = meal]
               ELSE [NoScan EXCEPT !.pc = "done", !.n = scan.n + 1, !.key = key,
                                   !.qr_data = qr_data, !.meal = meal,
                                   !.response = [NoResponse EXCEPT !.status = 403]]
    /\ ForgetCalls
    /\ UNCHANGED <<students, settings, now, storeVars, qrVars, tokenVars, scan_events,
                   user_data>>

\* What scan_qr does with the return value of verify_qr_code: 500 when the call raised,
\* the 'Invalid QR code' response when it is None, else get_object_or_404 and on
verify_outcome(request, student_id) ==
    IF student_id = "TypeError"
    THEN [request EXCEPT !.pc = "done",
                         !.response = [NoResponse EXCEPT !.status = 500]]
    ELSE IF student_id = None
    THEN [request EXCEPT !.pc = "done",
                         !.response = [NoResponse EXCEPT !.status = 200,
                                          !.result = BLOCKED_STATUS,
                                          !.reason = "Invalid QR code"]]
    ELSE [request EXCEPT !.pc = "decide", !.student = student_id]

\* QRService.verify_qr_code(qr_data), then get_object_or_404(Student, id=student_id)
scan_verify ==
    /\ scan.pc = "verify"
    /\ scan' = verify_outcome(scan, verify_qr_code(scan.qr_data))
    /\ settings' = get_settings
    /\ ForgetCalls
    /\ UNCHANGED <<students, now, storeVars, qrVars, tokenVars, scan_events, user_data>>

\* access_result = MessService.check_meal_access(student, meal)
scan_decide ==
    /\ scan.pc = "decide"
    /\ scan' = [scan EXCEPT !.pc = "record",
                            !.result = check_meal_access(scan.student, scan.meal).result,
                            !.reason = check_meal_access(scan.student, scan.meal).reason]
    /\ ForgetCalls
    /\ UNCHANGED <<students, settings, now, storeVars, qrVars, tokenVars, scan_events,
                   user_data>>

\* The ScanEvent row a request creates; request is the request that created it
NewScanEvent ==
    [id |-> Cardinality(scan_events) + 1, request |-> scan.n, student |-> scan.student,
     meal |-> scan.meal, staff_token |-> request_staff_token(scan.key),
     result |-> scan.result]

\* scan_qr that creates the ScanEvent row only for an allowed scan
scan_record_allowed_only ==
    /\ scan.pc = "record"
    /\ scan_events' = IF scan.result = ALLOWED THEN scan_events \cup {NewScanEvent}
                      ELSE scan_events
    /\ scan' = [scan EXCEPT !.pc = "respond", !.scan_id = Cardinality(scan_events) + 1]
    /\ ForgetCalls
    /\ UNCHANGED <<students, settings, now, storeVars, qrVars, tokenVars, user_data>>

\* ScanEvent.objects.create(student, meal, staff_token, result, device_info)
scan_record ==
    /\ scan.pc = "record"
    /\ scan_events' = scan_events \cup {NewScanEvent}
    /\ scan' = [scan EXCEPT !.pc = "respond", !.scan_id = NewScanEvent.id]
    /\ ForgetCalls
    /\ UNCHANGED <<students, settings, now, storeVars, qrVars, tokenVars, user_data>>

\* student_snapshot that also writes a ScanEvent for the verdict it shows
student_snapshot_recording(student_id) ==
    /\ preview' = IF students[student_id].status = NoStudent
                  THEN [student |-> student_id, status |-> 500, snapshot |-> NoSnapshot]
                  ELSE [student |-> student_id, status |-> 200,
                        snapshot |-> get_student_snapshot(student_id)]
    /\ scan_events' = IF students[student_id].status = NoStudent THEN scan_events
                      ELSE scan_events \cup
                             {[id |-> Cardinality(scan_events) + 1, request |-> 0,
                               student |-> student_id, meal |-> "LUNCH",
                               staff_token |-> None,
                               result |-> check_meal_access(student_id, "LUNCH").result]}
    /\ lastCutoff' = NoCutoff
    /\ rotation' = NoRotation
    /\ decision' = NoDecision
    /\ lastVerify' = NoVerify
    /\ lastAuth' = NoAuth
    /\ lastReact' = NoReact
    /\ UNCHANGED <<students, settings, now, storeVars, qrVars, tokenVars, scan, user_data>>

\* GET student_snapshot(student_id): get_object_or_404, whose Http404 the handler's
\* except Exception turns into a 500, then get_student_snapshot, serialized
student_snapshot(student_id) ==
    /\ preview' = IF students[student_id].status = NoStudent
                  THEN [student |-> student_id, status |-> 500, snapshot |-> NoSnapshot]
                  ELSE [student |-> student_id, status |-> 200,
                        snapshot |-> get_student_snapshot(student_id)]
    /\ lastCutoff' = NoCutoff
    /\ rotation' = NoRotation
    /\ decision' = NoDecision
    /\ lastVerify' = NoVerify
    /\ lastAuth' = NoAuth
    /\ lastReact' = NoReact
    /\ UNCHANGED <<students, settings, now, storeVars, qrVars, tokenVars, scanVars,
                   user_data>>

\* scan_qr that puts the snapshot into every response
scan_respond_with_snapshot ==
    /\ scan.pc = "respond"
    /\ scan' = [scan EXCEPT !.pc = "done",
                            !.response = [status |-> 200, result |-> scan.result,
                                          scan_id |-> scan.scan_id,
                                          student_snapshot |->
                                              get_student_snapshot(scan.student),
                                          reason |-> IF scan.result = ALLOWED THEN None
                                                     ELSE scan.reason]]
    /\ ForgetCalls
    /\ UNCHANGED <<students, settings, now, storeVars, qrVars, tokenVars, scan_events,
                   user_data>>

\* The response: result and scan_id, the snapshot when ALLOWED, the reason otherwise
scan_respond ==
    /\ scan.pc = "respond"
    /\ scan' = [scan EXCEPT !.pc = "done",
                            !.response = [status |-> 200, result |-> scan.result,
                                          scan_id |-> scan.scan_id,
                                          student_snapshot |->
                                              IF scan.result = ALLOWED
                                              THEN get_student_snapshot(scan.student)
                                              ELSE NoSnapshot,
                                          reason |-> IF scan.result = ALLOWED THEN None
                                                     ELSE scan.reason]]
    /\ ForgetCalls
    /\ UNCHANGED <<students, settings, now, storeVars, qrVars, tokenVars, scan_events,
                   user_data>>

\* ------------------------------------------- specification of the decision
\* Nothing of the token store or of the scan endpoint is in use
TokensIdle ==
    /\ tokens = [t \in TokenIds |-> NoToken]
    /\ inflight = {}
    /\ revoked = {}
    /\ lastAuth = NoAuth
    /\ lastReact = NoReact

ScanIdle ==
    /\ scan_events = {}
    /\ scan = NoScan

\* Every student is registered and pending, the store holds no payment, cut or closure
InitDecide ==
    /\ students = [m \in Members |-> NewStudent(NonceOf[m])]
    /\ settings = [exists |-> FALSE, qr_secret_version |-> 1]
    /\ payments = {}
    /\ cuts = {}
    /\ closures = {}
    /\ pending = {}
    /\ now = 0
    /\ lastCutoff = NoCutoff
    /\ user_data = [m \in Members |-> NoConversation]
    /\ rotation = NoRotation
    /\ preview = NoPreview
    /\ decision = NoDecision
    /\ issued = {}
    /\ lastVerify = NoVerify
    /\ TokensIdle
    /\ ScanIdle

NextDecide ==
    \/ \E m \in Members : approve(m)
    \/ \E m \in Members : deny(m)
    \/ \E m \in Members, cs \in Days, ce \in Days, st \in PaymentStatus :
          create_payment(m, cs, ce, st)
    \/ \E m \in Members, fd \in Days, td \in Days : create_mess_cut(m, fd, td)
    \/ \E fd \in Days, td \in Days : create_mess_closure(fd, td)
    \/ Tick(TicksPerDay)
    \/ \E m \in Members, meal \in Meal : Decide(m, meal)

SpecDecide == InitDecide /\ [][NextDecide]_vars

\* ------------------------------------------- specification of the QR codec
\* An empty database: no student, no settings row, no payload handed out
InitQR ==
    /\ students = [m \in Members |-> EmptyStudent]
    /\ settings = [exists |-> FALSE, qr_secret_version |-> 1]
    /\ payments = {}
    /\ cuts = {}
    /\ closures = {}
    /\ pending = {}
    /\ now = 0
    /\ lastCutoff = NoCutoff
    /\ user_data = [m \in Members |-> NoConversation]
    /\ rotation = NoRotation
    /\ preview = NoPreview
    /\ decision = NoDecision
    /\ issued = {}
    /\ lastVerify = NoVerify
    /\ TokensIdle
    /\ ScanIdle

NextQR ==
    \/ \E m \in Members : register_student(m)
    \/ \E m \in Members : approve(m)
    \/ \E m \in Members : deny(m)
    \/ \E m \in Members : issue_qr(m)
    \/ \E r \in issued : verify(r.payload)
    \/ \E m \in Members : regenerate_qr_codes_admin(m)
    \/ \E done \in SUBSET Members : regenerate_qr_codes(done)
    \/ Tick(MaxNow)

SpecQR == InitQR /\ [][NextQR]_vars

\* ------------------------- specification of verification on an empty settings table
\* A payload of five parts that nobody issued, and a text that is no payload
Forged == join(<<str(1), id_text("s1"), str(0), Txt(<<NonceOf["s1"]>>), Txt(<<"0", "0">>)>>)

Malformed == Txt(<<"x">>)

VerifyInputs == {r.payload : r \in issued} \cup {Forged, Malformed}

NextVerify ==
    \/ \E m \in Members : register_student(m)
    \/ \E m \in Members : approve(m)
    \/ \E m \in Members : deny(m)
    \/ \E m \in Members : issue_qr(m)
    \/ \E qr_data \in VerifyInputs : verify(qr_data)
    \/ Tick(MaxNow)

SpecVerify == InitQR /\ [][NextVerify]_vars

\* ---------------------------------- specification of verification on altered payloads
\* The texts a payload is altered to, one segment at a time
WithPart(qr_data, k, text) == join([split(qr_data) EXCEPT ![k] = text])

OtherHex == "f"

SignatureTampers(qr_data) ==
    {WithPart(qr_data, 5, [split(qr_data)[5] EXCEPT ![i] = Ch(c)]) :
        i \in 1 .. SigLen, c \in {OtherHex, NonAscii}}

MemberTampers(qr_data) ==
    {WithPart(qr_data, 2, id_text(x)) : x \in Members \cup {"s0"}} \ {qr_data}

VersionTexts ==
    {str(k) : k \in 0 .. MaxEpoch + 1} \cup {<<Ch("0")>> \o str(k) : k \in 1 .. MaxEpoch}
        \cup {Txt(<<"x">>), <<>>}

VersionTampers(qr_data) ==
    {WithPart(qr_data, 1, v) : v \in VersionTexts} \ {qr_data}

NonceTampers(qr_data) ==
    {WithPart(qr_data, 4, Txt(<<n>>)) : n \in {"n0", "n1", "n2"}} \ {qr_data}

Tampers(qr_data) ==
    SignatureTampers(qr_data) \cup MemberTampers(qr_data)
        \cup VersionTampers(qr_data) \cup NonceTampers(qr_data)

\* The students are registered, any of them approved at any version, under any epoch
InitCodec ==
    /\ students \in [Members -> {NewStudent("n1"), NewStudent("n2")}
                                 \cup {[status |-> APPROVED, qr_version |-> v, qr_nonce |-> n] :
                                          v \in 1 .. MaxEpoch, n \in {"n1", "n2"}}]
    /\ \A m \in Members : students[m].qr_nonce = NonceOf[m]
    /\ settings \in {[exists |-> TRUE, qr_secret_version |-> v] : v \in 1 .. MaxEpoch}
    /\ payments = {}
    /\ cuts = {}
    /\ closures = {}
    /\ pending = {}
    /\ now = 0
    /\ lastCutoff = NoCutoff
    /\ user_data = [m \in Members |-> NoConversation]
    /\ rotation = NoRotation
    /\ preview = NoPreview
    /\ decision = NoDecision
    /\ issued = {}
    /\ lastVerify = NoVerify
    /\ TokensIdle
    /\ ScanIdle

NextCodec ==
    \/ \E m \in Members : issue_qr(m)
    \/ \E r \in issued : verify(r.payload)
    \/ \E r \in issued : \E t \in Tampers(r.payload) : verify(t)

SpecCodec == InitCodec /\ [][NextCodec]_vars

\* ------------------------------------------- specification of the token store
\* No token has been issued
InitToken ==
    /\ students = [m \in Members |-> EmptyStudent]
    /\ settings = [exists |-> FALSE, qr_secret_version |-> 1]
    /\ payments = {}
    /\ cuts = {}
    /\ closures = {}
    /\ pending = {}
    /\ now = 0
    /\ lastCutoff = NoCutoff
    /\ user_data = [m \in Members |-> NoConversation]
    /\ rotation = NoRotation
    /\ preview = NoPreview
    /\ decision = NoDecision
    /\ issued = {}
    /\ lastVerify = NoVerify
    /\ TokensIdle
    /\ ScanIdle

NextToken ==
    \/ \E t \in TokenIds, e \in ExpiryChoices : create_token(t, TRUE, e)
    \/ \E t \in TokenIds : create_token(t, FALSE, 0)
    \/ \E key \in Raws : authenticate(key)
    \/ \E t \in TokenIds : revoke_get(t)
    \/ \E h \in inflight : revoke_save(h)
    \/ \E t \in TokenIds : reactivate_get(t)
    \/ \E h \in inflight : reactivate_save(h)
    \/ \E t \in TokenIds : activate_tokens(t)
    \/ \E t \in TokenIds : activate_token_view_get(t)
    \/ \E h \in inflight : activate_token_view_save(h)
    \/ Tick(TicksPerDay)

SpecToken == InitToken /\ [][NextToken]_vars

\* --------------------------- specification of the token store with the admin actions
NextTokenAdmin ==
    \/ \E t \in TokenIds, e \in ExpiryChoices : create_token(t, TRUE, e)
    \/ \E t \in TokenIds : create_token(t, FALSE, 0)
    \/ \E key \in Raws \cup NewRaws : authenticate(key)
    \/ \E t \in TokenIds : activate_tokens(t)
    \/ Tick(TicksPerDay)
    \/ \E t \in TokenIds : extend_expiry(t)
    \/ \E t \in TokenIds, raw_token \in NewRaws : generate_new_token(t, raw_token)

SpecTokenAdmin == InitToken /\ [][NextTokenAdmin]_vars

\* ------------------------------------------- specification of the scan endpoint
\* The payloads presented to the scanner: the ones handed out and an altered one
ScanInputs == {r.payload : r \in issued} \cup {WithPart(r.payload, 4, Txt(<<"n0">>)) : r \in issued}

\* Student s1 is approved and holds a QR code issued under epoch 1; one staff token
\* without expiry has been issued
InitScan ==
    /\ students = [m \in Members |->
                     IF m = "s1" THEN [NewStudent(NonceOf[m]) EXCEPT !.status = APPROVED]
                     ELSE EmptyStudent]
    /\ settings = [exists |-> TRUE, qr_secret_version |-> 1]
    /\ payments = {}
    /\ cuts = {}
    /\ closures = {}
    /\ pending = {}
    /\ now = 0
    /\ lastCutoff = NoCutoff
    /\ user_data = [m \in Members |-> NoConversation]
    /\ rotation = NoRotation
    /\ preview = NoPreview
    /\ decision = NoDecision
    /\ issued = {[payload |-> generate_qr_payload("s1"), member |-> "s1", epoch |-> 1,
                  revoked |-> FALSE]}
    /\ lastVerify = NoVerify
    /\ tokens = [t \in TokenIds |->
                   IF t = "t1" THEN [exists |-> TRUE, token_hash |-> sha256(RawOf[t]),
                                     active |-> TRUE, has_expiry |-> FALSE, expires_at |-> 0]
                   ELSE NoToken]
    /\ inflight = {}
    /\ revoked = {}
    /\ lastAuth = NoAuth
    /\ lastReact = NoReact
    /\ ScanIdle

NextScan ==
    \/ \E m \in Members, cs \in Days, ce \in Days : create_payment(m, cs, ce, "VERIFIED")
    \/ \E m \in Members, fd \in Days, td \in Days : create_mess_cut(m, fd, td)
    \/ \E fd \in Days, td \in Days : create_mess_closure(fd, td)
    \/ Tick(TicksPerDay)
    \/ \E key \in {"r0", "r1"}, qr_data \in ScanInputs, meal \in Meal :
          scan_begin(key, qr_data, meal)
    \/ scan_verify
    \/ scan_decide
    \/ scan_record
    \/ scan_respond

SpecScan == InitScan /\ [][NextScan]_vars

\* --------- specification of the scan endpoint next to the read-only verdict queries
NextPreview ==
    \/ \E m \in Members, cs \in Days, ce \in Days : create_payment(m, cs, ce, "VERIFIED")
    \/ \E m \in Members, fd \in Days, td \in Days : create_mess_cut(m, fd, td)
    \/ \E key \in {"r0", "r1"}, qr_data \in ScanInputs, meal \in Meal :
          scan_begin(key, qr_data, meal)
    \/ scan_verify
    \/ scan_decide
    \/ scan_record
    \/ scan_respond
    \/ \E m \in Members, meal \in Meal : Decide(m, meal)
    \/ \E student_id \in Members : student_snapshot(student_id)

SpecPreview == InitScan /\ [][NextPreview]_vars

\* ------------------- specification of the scan endpoint with a clock inside the day
NextMeal ==
    \/ \E m \in Members, cs \in Days, ce \in Days : create_payment(m, cs, ce, "VERIFIED")
    \/ \E m \in Members, fd \in Days, td \in Days : create_mess_cut(m, fd, td)
    \/ Tick(1)
    \/ \E key \in {"r0", "r1"}, qr_data \in ScanInputs, meal \in Meal :
          scan_begin(key, qr_data, meal)
    \/ scan_verify
    \/ scan_decide
    \/ scan_record
    \/ scan_respond

SpecMeal == InitScan /\ [][NextMeal]_vars

\* ------------------------------- specification of scans of rejected payloads
\* The texts presented in place of a handed-out payload: it altered in one segment, cut
\* short by a character, without its signature segment, with a sixth segment, with a
\* signature character that is no hex digit
RejectInputs(qr_data) ==
    Tampers(qr_data)
        \cup {SubSeq(qr_data, 1, Len(qr_data) - 1),
              join(SubSeq(split(qr_data), 1, 4)),
              join(Append(split(qr_data), Txt(<<"x">>))),
              WithPart(qr_data, 5, [split(qr_data)[5] EXCEPT ![1] = Ch("g")])}

NextReject ==
    \/ \E m \in Members : regenerate_qr_codes_admin(m)
    \/ \E done \in SUBSET Members : regenerate_qr_codes(done)
    \/ \E r \in issued, meal \in Meal : scan_begin("r1", r.payload, meal)
    \/ \E r \in issued : \E qr_data \in RejectInputs(r.payload) :
          scan_begin("r1", qr_data, "LUNCH")
    \/ scan_verify
    \/ scan_decide
    \/ scan_record
    \/ scan_respond

SpecReject == InitScan /\ [][NextReject]_vars

\* --------------------------- specification of the scan endpoint's authentication
\* What the Authorization header of a scan request carries: nothing, or a bearer secret
Bearers == Raws \cup {None}

\* Student s1 is approved and holds a QR code; no staff token has been issued yet
InitGate ==
    /\ students = [m \in Members |->
                     IF m = "s1" THEN [NewStudent(NonceOf[m]) EXCEPT !.status = APPROVED]
                     ELSE EmptyStudent]
    /\ settings = [exists |-> TRUE, qr_secret_version |-> 1]
    /\ payments = {}
    /\ cuts = {}
    /\ closures = {}
    /\ pending = {}
    /\ now = 0
    /\ lastCutoff = NoCutoff
    /\ user_data = [m \in Members |-> NoConversation]
    /\ rotation = NoRotation
    /\ preview = NoPreview
    /\ decision = NoDecision
    /\ issued = {[payload |-> generate_qr_payload("s1"), member |-> "s1", epoch |-> 1,
                  revoked |-> FALSE]}
    /\ lastVerify = NoVerify
    /\ TokensIdle
    /\ ScanIdle

NextGate ==
    \/ \E t \in TokenIds, e \in ExpiryChoices : create_token(t, TRUE, e)
    \/ \E t \in TokenIds : create_token(t, FALSE, 0)
    \/ \E t \in TokenIds : revoke_get(t)
    \/ \E h \in inflight : revoke_save(h)
    \/ Tick(1)
    \/ \E key \in Bearers, r \in issued : scan_begin(key, r.payload, "LUNCH")
    \/ scan_verify
    \/ scan_decide
    \/ scan_record
    \/ scan_respond

SpecGate == InitGate /\ [][NextGate]_vars

\* ------------------------------------- specification of the payment cycles
\* The calendar dates of payment cycles: enough for two cycles that share one day
PayDays == 0 .. MaxDay + 1

\* Both students are registered; no payment exists
InitPay ==
    /\ students = [m \in Members |-> NewStudent(NonceOf[m])]
    /\ settings = [exists |-> FALSE, qr_secret_version |-> 1]
    /\ payments = {}
    /\ cuts = {}
    /\ closures = {}
    /\ pending = {}
    /\ now = 0
    /\ lastCutoff = NoCutoff
    /\ user_data = [m \in Members |-> NoConversation]
    /\ rotation = NoRotation
    /\ preview = NoPreview
    /\ decision = NoDecision
    /\ issued = {}
    /\ lastVerify = NoVerify
    /\ TokensIdle
    /\ ScanIdle

NextPay ==
    \/ \E m \in Members, cs \in PayDays, ce \in PayDays, st \in PaymentStatus :
          create_payment(m, cs, ce, st)
    \/ \E p \in payments : verify_payment(p)
    \/ \E p \in payments : deny_payment(p)
    \/ \E p \in payments : mark_manual_paid(p)

SpecPay == InitPay /\ [][NextPay]_vars

\* ---------------------------------------- specification of the mess cuts
NextCut ==
    \/ \E m \in Members, fd \in PayDays, td \in PayDays : create_mess_cut(m, fd, td)
    \/ \E old \in cuts : \E m \in Members, fd \in PayDays, td \in PayDays :
          update_mess_cut(old, m, fd, td)
    \/ \E old \in cuts : delete_mess_cut(old)
    \/ Tick(TicksPerDay)

SpecCut == InitPay /\ [][NextCut]_vars

\* ------------------------- specification of concurrent creation requests
\* Creation requests are served by several workers: between the pre_save query of one
\* request and its INSERT the other requests run
NextRace ==
    \/ \E m \in Members, cs \in PayDays, ce \in PayDays, st \in {"UPLOADED", "VERIFIED"} :
          payment_check(m, cs, ce, st)
    \/ \E h \in pending : payment_insert(h)
    \/ \E m \in Members, fd \in PayDays, td \in PayDays : mess_cut_check(m, fd, td)
    \/ \E h \in pending : mess_cut_insert(h)

SpecRace == InitPay /\ [][NextRace]_vars

\* ------------------------------- specification of the cutoff calculators
\* The dates a mess cut is asked for
TargetDays == 0 .. MaxDay + 3

NextCutoff ==
    \/ \E cutoff_time \in TimesOfDay, target_date \in TargetDays :
          call_check_cutoff_rule(cutoff_time, target_date)
    \/ \E cutoff_time \in TimesOfDay, from_date \in TargetDays, to_date \in TargetDays :
          call_validate_mess_cut_dates(cutoff_time, from_date, to_date)
    \/ Tick(1)

SpecCutoff == InitPay /\ [][NextCutoff]_vars

\* ----------------------- specification of the clock reads of verdicts and cutoffs
\* TIME_ZONE = 'Asia/Kolkata' with USE_TZ = True: now is the UTC instant timezone.now()
\* returns, and the facility's wall clock is ahead of it by a part of a day
UtcOffset == 1

NextZone ==
    \/ \E m \in Members : approve(m)
    \/ \E m \in Members, meal \in Meal : Decide(m, meal)
    \/ \E target_date \in TargetDays : call_check_cutoff_rule(time_23_0, target_date)
    \/ \E from_date \in TargetDays, to_date \in TargetDays :
          call_validate_mess_cut_dates(time_23_0, from_date, to_date)
    \/ Tick(1)

SpecZone == InitPay /\ [][NextZone]_vars

\* ------------------------ specification of the creation paths of mess cuts
NextExempt ==
    \/ \E m \in Members, fd \in TargetDays, td \in TargetDays : rest_create_mess_cut(m, fd, td)
    \/ \E m \in Members : start_mess_cut(m)
    \/ \E m \in Members, date \in TargetDays : mess_cut_from(m, date)
    \/ \E m \in Members, date \in TargetDays : mess_cut_to(m, date)
    \/ \E m \in Members : mess_cut_confirm(m)
    \/ Tick(1)

SpecExempt == InitScan /\ [][NextExempt]_vars

\* --------------------------------- specification of the bulk rotation request
NextRotate ==
    \/ \E m \in Members : register_student(m)
    \/ \E m \in Members : approve(m)
    \/ \E m \in Members : deny(m)
    \/ \E m \in Members : issue_qr(m)
    \/ \E order \in UNION {Orders(S) : S \in SUBSET Members} :
          \E fails_at \in Members \cup {None}, fails_in \in {"save", "generate_qr"} :
             regenerate_qr_codes_request(order, fails_at, fails_in)
    \/ Tick(MaxNow)

SpecRotate == InitQR /\ [][NextRotate]_vars

\* ==================================================================== claims
\* What the decision rules read, written over the tables themselves
IsApproved(m) == students[m].status = APPROVED

VerifiedCycleCovers(m, date) ==
    \E p \in payments : /\ p.student = m
                         /\ p.status = "VERIFIED"
                         /\ p.cycle_start <= date
                         /\ date <= p.cycle_end

ExemptionCovers(m, date) ==
    \E c \in cuts : c.student = m /\ c.from_date <= date /\ date <= c.to_date

ClosureCovers(date) ==
    \E c \in closures : c.from_date <= date /\ date <= c.to_date

ShouldAllow(m, date) ==
    /\ IsApproved(m)
    /\ VerifiedCycleCovers(m, date)
    /\ ~ ExemptionCovers(m, date)
    /\ ~ ClosureCovers(date)

\* C1: the decision is Allowed if and only if the member is Approved, a Verified payment
\* cycle of the member covers today, no exemption of the member covers today and no
\* facility closure covers today; an Approved member with a verified payment and an
\* exemption covering today gets BlockedCut, never Allowed.
C1_AllowedIff ==
    /\ \A m \in Members, meal \in Meal :
          students[m].status # NoStudent =>
            /\ check_meal_access(m, meal).result = ALLOWED <=> ShouldAllow(m, Today)
            /\ (IsApproved(m) /\ VerifiedCycleCovers(m, Today) /\ ExemptionCovers(m, Today))
                  => check_meal_access(m, meal).result = BLOCKED_CUT
    /\ decision # NoDecision =>
          (decision.result = ALLOWED <=> ShouldAllow(decision.student, decision.today))

\* C1 witness: a decision was just made for an Approved member with a verified payment
\* and an exemption both covering today, and it is BlockedCut
C1_Witness ==
    /\ decision # NoDecision
    /\ IsApproved(decision.student)
    /\ VerifiedCycleCovers(decision.student, decision.today)
    /\ ExemptionCovers(decision.student, decision.today)
    /\ decision.result = BLOCKED_CUT

\* The verdict the precedence order of the rules prescribes
PrescribedVerdict(m, date) ==
    IF ~ IsApproved(m) THEN BLOCKED_STATUS
    ELSE IF ~ VerifiedCycleCovers(m, date) THEN BLOCKED_NO_PAYMENT
    ELSE IF ExemptionCovers(m, date) \/ ClosureCovers(date) THEN BLOCKED_CUT
    ELSE ALLOWED

\* C2: the rules apply in strict order, first match wins: BlockedStatus when the status
\* is not Approved (even with no payment), else BlockedNoPayment when no Verified cycle
\* covers today (even with an exemption or closure today), else BlockedCut when an
\* exemption or a closure covers today, else Allowed; no other verdict is produced.
C2_Precedence ==
    /\ \A m \in Members, meal \in Meal :
          students[m].status # NoStudent =>
            LET r == check_meal_access(m, meal).result IN
            /\ r \in Result
            /\ ~ IsApproved(m) => r = BLOCKED_STATUS
            /\ (IsApproved(m) /\ ~ VerifiedCycleCovers(m, Today)) => r = BLOCKED_NO_PAYMENT
            /\ (IsApproved(m) /\ VerifiedCycleCovers(m, Today)
                  /\ (ExemptionCovers(m, Today) \/ ClosureCovers(Today))) => r = BLOCKED_CUT
            /\ r = PrescribedVerdict(m, Today)
    /\ decision # NoDecision =>
          decision.result = PrescribedVerdict(decision.student, decision.today)

\* C2 witness: a decision was just made for an Approved member with no verified payment
\* today while an exemption or closure covers today, and it is BlockedNoPayment
C2_Witness ==
    /\ decision # NoDecision
    /\ IsApproved(decision.student)
    /\ ~ VerifiedCycleCovers(decision.student, decision.today)
    /\ ExemptionCovers(decision.student, decision.today) \/ ClosureCovers(decision.today)
    /\ decision.result = BLOCKED_NO_PAYMENT

\* A pending member whose payment is verified and who has no exemption or closure today
\* is blocked for status
C2_WitnessPending ==
    /\ decision # NoDecision
    /\ students[decision.student].status = PENDING
    /\ VerifiedCycleCovers(decision.student, decision.today)
    /\ ~ ExemptionCovers(decision.student, decision.today)
    /\ ~ ClosureCovers(decision.today)
    /\ decision.result = BLOCKED_STATUS

\* C3: in every reachable state (after any sequence of registrations, approvals, global
\* epoch rotations and per-member regenerations) the payload freshly issued for an
\* Approved member is accepted by verification and resolves to that member.
C3_RoundTrip ==
    \A m \in Members :
        IsApproved(m) => verify_qr_code(generate_qr_payload(m)) = m

\* C4: a payload issued under secret epoch N is rejected by verification once the global
\* epoch is N+1 or later, even though the member's nonce is unchanged and the signature
\* was valid under epoch N.
C4_EpochIsolation ==
    /\ \A r \in issued :
          r.epoch < get_settings.qr_secret_version => verify_qr_code(r.payload) = None
    /\ \A r \in issued :
          (lastVerify.qr = r.payload /\ r.epoch < get_settings.qr_secret_version)
             => lastVerify.result = None

\* C4 witness: a payload issued under an earlier epoch was just verified and rejected
\* while its member is approved and the member's row still holds the payload's nonce
\* and version
C4_Witness ==
    \E r \in issued :
        /\ lastVerify.qr = r.payload
        /\ lastVerify.result = None
        /\ r.epoch < settings.qr_secret_version
        /\ IsApproved(r.member)
        /\ students[r.member].qr_version = r.epoch
        /\ students[r.member].qr_nonce = NonceOf[r.member]

\* C5: after the per-member regeneration of M completes, every payload of M that
\* verified before it is rejected, and stays rejected after any later sequence of global
\* or per-member rotations.
C5_MemberRotation ==
    /\ \A r \in issued : r.revoked => verify_qr_code(r.payload) = None
    /\ \A r \in issued :
          (r.revoked /\ lastVerify.qr = r.payload) => lastVerify.result = None

\* C5 witness: a payload that verified before its member's regeneration was just
\* verified and rejected, no global rotation having happened since its issue
C5_Witness ==
    \E r \in issued :
        /\ r.revoked
        /\ lastVerify.qr = r.payload
        /\ lastVerify.result = None
        /\ settings.qr_secret_version = r.epoch

\* The same after a later global rotation
C5_WitnessLaterRotation ==
    \E r \in issued :
        /\ r.revoked
        /\ lastVerify.qr = r.payload
        /\ lastVerify.result = None
        /\ settings.qr_secret_version > r.epoch
        /\ students[r.member].qr_version = settings.qr_secret_version

\* C6: for every payload that verifies, changing one character of the signature segment,
\* or the member id, version or nonce segment while keeping the signature, makes
\* verification return Invalid.
C6_TamperInvalid ==
    \A r \in issued :
        verify_qr_code(r.payload) = r.member =>
            \A t \in Tampers(r.payload) : verify_qr_code(t) = None

\* No altered payload is ever resolved to a member: verification returns None or raises
C6_TamperNotAccepted ==
    \A r \in issued :
        verify_qr_code(r.payload) = r.member =>
            \A t \in Tampers(r.payload) : verify_qr_code(t) \in {None, "TypeError"}

\* Only an altered signature holding a non-ASCII character escapes as an exception
C6_OnlyNonAsciiRaises ==
    \A r \in issued :
        \A t \in Tampers(r.payload) :
            verify_qr_code(t) = "TypeError" =>
                \E i \in 1 .. SigLen : split(t)[5][i].c = NonAscii

\* The token rows the store should authenticate a bearer secret against
LiveTokenFor(key, at) ==
    \E t \in TokenIds : /\ tokens[t].exists
                        /\ tokens[t].token_hash = sha256(key)
                        /\ tokens[t].active
                        /\ (~ tokens[t].has_expiry \/ tokens[t].expires_at > at)

\* C7: authentication of a bearer secret succeeds if and only if a token with its hash
\* exists, is active, and its expiresAt is null or strictly later than now; at the
\* instant now = expiresAt the result is Unauthenticated.
C7_AuthIff ==
    /\ \A key \in Raws :
          authenticate_credentials(key) # AuthenticationFailed <=> LiveTokenFor(key, now)
    /\ lastAuth # NoAuth =>
          (lastAuth.result # AuthenticationFailed <=> LiveTokenFor(lastAuth.raw, lastAuth.at))

\* C8: once a revocation of a token has been saved, every later authentication with that
\* token fails unless an activation of it has been saved since, under any interleaving
\* of concurrent authenticate, revoke and reactivate requests.
C8_RevokedStaysOut ==
    /\ \A t \in revoked : authenticate_credentials(RawOf[t]) = AuthenticationFailed
    /\ \A t \in revoked : lastAuth.raw = RawOf[t] => lastAuth.result = AuthenticationFailed

\* C8 witness: authentication with a revoked, unexpired token has just failed while a
\* reactivation that loaded the row is still to save
C8_Witness ==
    \E t \in revoked :
        /\ lastAuth.raw = RawOf[t]
        /\ lastAuth.result = AuthenticationFailed
        /\ ~ (tokens[t].has_expiry /\ tokens[t].expires_at <= now)
        /\ \E h \in inflight : h.op = "reactivate" /\ h.token = t

\* C9: a reactivation of a token whose expiresAt is earlier than now fails with
\* AlreadyExpired and leaves the token as it was, inactive.
C9_NoResurrection ==
    (lastReact # NoReact /\ lastReact.expired /\ ~ lastReact.was_active) =>
        /\ lastReact.result = "AlreadyExpired"
        /\ ~ tokens[lastReact.token].active

\* The ScanEvent rows the request being served has created
EventsOfRequest == {e \in scan_events : e.request = scan.n}

\* C10: every scan whose credential verifies and whose member resolves persists exactly
\* one ScanEvent carrying the member, the declared meal and the verdict that is returned,
\* denials included, and the row is written before the response is produced.
C10_ScanRecorded ==
    /\ (scan.pc \in {"respond", "done"} /\ scan.student # None) =>
          /\ Cardinality(EventsOfRequest) = 1
          /\ \A e \in EventsOfRequest : /\ e.student = scan.student
                                        /\ e.meal = scan.meal
                                        /\ e.result = scan.result
                                        /\ e.result \in Result
    /\ (scan.pc = "done" /\ scan.student # None) =>
          /\ scan.response.status = 200
          /\ \A e \in EventsOfRequest : /\ e.result = scan.response.result
                                        /\ e.id = scan.response.scan_id
    /\ \A e1 \in scan_events, e2 \in scan_events : e1.request = e2.request => e1 = e2

\* C10 witness: a scan of a verifying payload has been answered with a denial and its
\* ScanEvent row holds the member, the meal and that denial
C10_Witness ==
    /\ scan.pc = "done"
    /\ scan.student = "s1"
    /\ scan.response.result \in {BLOCKED_NO_PAYMENT, BLOCKED_CUT}
    /\ \E e \in scan_events : /\ e.request = scan.n
                              /\ e.student = scan.student
                              /\ e.meal = scan.meal
                              /\ e.result = scan.response.result

\* The same for an allowed scan
C10_WitnessAllowed ==
    /\ scan.pc = "done"
    /\ scan.student = "s1"
    /\ scan.response.result = ALLOWED
    /\ \E e \in scan_events : e.request = scan.n /\ e.result = ALLOWED

\* The request being served has been answered after its QR payload failed verification
VerificationFailed ==
    /\ scan.pc = "done"
    /\ scan.response.status # 403
    /\ scan.student = None

\* C11: a scan whose QR payload fails verification ends in the InvalidCredential abort:
\* no access decision is computed, no ScanEvent is persisted, and what is returned is
\* not one of the four verdicts Allowed, BlockedStatus, BlockedNoPayment, BlockedCut.
C11_InvalidAborts ==
    VerificationFailed =>
        /\ scan.result = None
        /\ EventsOfRequest = {}
        /\ scan.response.result \notin Result

\* What does hold of such a scan: no decision, no ScanEvent
C11_NoDecisionNoRecord ==
    VerificationFailed => (scan.result = None /\ EventsOfRequest = {})

\* The response scan_qr gives to a payload whose verification does not yield a student
scan_reply(qr_data) == verify_outcome(scan, verify_qr_code(qr_data)).response

FailsVerification(qr_data) == verify_qr_code(qr_data) \notin Members

\* C12: any two payloads that fail verification, whatever the reason (field count,
\* truncation, non-integer version, non-hex or non-ASCII signature, signature mismatch,
\* stale epoch, nonce or version mismatch, unknown member id), get the same status and
\* the same body from the scan endpoint.
C12_Indistinguishable ==
    /\ \A r \in issued :
          \A q1 \in RejectInputs(r.payload) \cup {r.payload},
             q2 \in RejectInputs(r.payload) \cup {r.payload} :
                (FailsVerification(q1) /\ FailsVerification(q2))
                    => scan_reply(q1) = scan_reply(q2)
    /\ VerificationFailed =>
          \A r \in issued : \A q \in RejectInputs(r.payload) :
              FailsVerification(q) => scan.response = scan_reply(q)

\* Every failure but the one that raises gets the 'Invalid QR code' response
C12_SameUnlessRaised ==
    \A r \in issued :
        \A q \in RejectInputs(r.payload) \cup {r.payload} :
            (FailsVerification(q) /\ verify_qr_code(q) # "TypeError")
                => scan_reply(q) = [NoResponse EXCEPT !.status = 200,
                                       !.result = BLOCKED_STATUS,
                                       !.reason = "Invalid QR code"]

\* The bearer secret of a request is missing, unknown, inactive or expired
BadBearer(key) ==
    \/ key = None
    \/ \A t \in TokenIds : ~ (tokens[t].exists /\ tokens[t].token_hash = sha256(key))
    \/ \E t \in TokenIds : /\ tokens[t].exists
                           /\ tokens[t].token_hash = sha256(key)
                           /\ \/ ~ tokens[t].active
                              \/ tokens[t].has_expiry /\ tokens[t].expires_at < now

\* The request being served was turned away at the door
Rejected(s) ==
    /\ s.pc = "done"
    /\ s.response.status = 403
    /\ s.student = None
    /\ s.result = None
    /\ s.scan_id = 0

C13_RejectedLeavesNoEvent == Rejected(scan) => EventsOfRequest = {}

C13_WitnessExpired ==
    /\ Rejected(scan)
    /\ \E t \in TokenIds : /\ tokens[t].exists
                           /\ tokens[t].token_hash = sha256(scan.key)
                           /\ tokens[t].active
                           /\ tokens[t].has_expiry
                           /\ tokens[t].expires_at < now

\* ... one carrying a secret no token has
C13_WitnessUnknown ==
    /\ Rejected(scan)
    /\ scan.key = "r0"
    /\ \E t \in TokenIds : tokens[t].exists

\* ... and one carrying no Authorization header
C13_WitnessMissing ==
    /\ Rejected(scan)
    /\ scan.key = None
    /\ \E t \in TokenIds : tokens[t].exists /\ is_valid(tokens[t])

\* A request carrying a live token has been verified, decided and recorded
C13_WitnessAdmitted == scan.pc = "done" /\ EventsOfRequest # {}

\* The request being served has been answered with a verdict
Answered == scan.pc = "done" /\ scan.response.status = 200

\* C14: a scan response contains the member snapshot if and only if its verdict is
\* Allowed; every denial response contains the verdict and a non-empty reason and no
\* member snapshot.
C14_SnapshotIffAllowed ==
    Answered =>
        /\ scan.response.result \in Result
        /\ scan.response.student_snapshot # NoSnapshot <=> scan.response.result = ALLOWED
        /\ scan.response.result # ALLOWED
              => /\ scan.response.reason \notin {None, ""}
                 /\ scan.response.student_snapshot = NoSnapshot

\* An Allowed response carrying the snapshot
C14_Witness ==
    /\ Answered
    /\ scan.response.result = ALLOWED
    /\ scan.response.student_snapshot # NoSnapshot

\* A denial of a known student, and the denial of an invalid payload
C14_WitnessDenied ==
    /\ Answered
    /\ scan.response.result = BLOCKED_CUT
    /\ scan.student # None

C14_WitnessInvalid ==
    /\ Answered
    /\ scan.response.result = BLOCKED_STATUS
    /\ scan.student = None

\* The payment row is in UPLOADED or VERIFIED and its inclusive range covers the date
ActiveCycleCovers(p, date) ==
    /\ p.status \in {"UPLOADED", "VERIFIED"}
    /\ p.cycle_start <= date
    /\ date <= p.cycle_end

\* C15: for each member and each date at most one payment cycle in Uploaded or Verified
\* covers the date (ranges inclusive of cycleStart and cycleEnd), and creating a cycle
\* whose cycleStart lies inside an existing Uploaded/Verified cycle of the member,
\* its last day included, is rejected.
C15_OneActiveCyclePerDate ==
    /\ \A p \in payments, q \in payments :
          (p # q /\ p.student = q.student)
              => \A date \in PayDays : ~ (ActiveCycleCovers(p, date) /\ ActiveCycleCovers(q, date))
    /\ \A m \in Members, cs \in PayDays, ce \in PayDays, st \in PaymentStatus :
          LET row == [student |-> m, cycle_start |-> cs, cycle_end |-> ce, status |-> st] IN
          (\E p \in payments : p.student = m /\ ActiveCycleCovers(p, cs))
              => ~ (payment_pre_save(row) /\ payment_unique(row))

\* What does hold: two active cycles of a member share at most a boundary day, the last
\* day of one being the first day of the other
C15_ShareAtMostBoundary ==
    \A p \in payments, q \in payments :
        (p # q /\ p.student = q.student)
            => \A date \in PayDays :
                  (ActiveCycleCovers(p, date) /\ ActiveCycleCovers(q, date))
                      => \/ (date = p.cycle_end /\ date = q.cycle_start)
                         \/ (date = q.cycle_end /\ date = p.cycle_start)

\* Two inclusive date ranges have a day in common
RangesOverlap(c, d) ==
    \E date \in PayDays : /\ c.from_date <= date /\ date <= c.to_date
                          /\ d.from_date <= date /\ date <= d.to_date

CyclesOverlap(p, q) ==
    /\ p.cycle_start < q.cycle_end
    /\ p.cycle_end > q.cycle_start

\* C17: of two concurrent creation requests of one member with overlapping date ranges
\* (two mess cuts, or two payment cycles in Uploaded/Verified) at most one commits: no
\* interleaving leaves both rows in the table.
C17_AtMostOneCommits ==
    /\ \A c \in cuts, d \in cuts :
          (c # d /\ c.student = d.student) => ~ RangesOverlap(c, d)
    /\ \A p \in payments, q \in payments :
          (/\ p # q
           /\ p.student = q.student
           /\ p.status \in {"UPLOADED", "VERIFIED"}
           /\ q.status \in {"UPLOADED", "VERIFIED"}) => ~ CyclesOverlap(p, q)

\* The same for the mess cuts alone, and for the payment cycles alone
C17_CutsOnly ==
    \A c \in cuts, d \in cuts :
        (c # d /\ c.student = d.student) => ~ RangesOverlap(c, d)

C17_PaymentsOnly ==
    \A p \in payments, q \in payments :
        (p # q /\ p.student = q.student) => ~ CyclesOverlap(p, q)

\* The earliest first day of a new mess cut asked for at the instant at, the cutoff being
\* cutoff_time: two days ahead from the cutoff on, one day ahead before it
EarliestExemptionDate(at, cutoff_time) ==
    IF at % TicksPerDay >= cutoff_time
    THEN at \div TicksPerDay + 2
    ELSE at \div TicksPerDay + 1

\* C18: the earliest permissible first day computed by the cutoff calculators is today + 2
\* when the time of day is at or after the configured cutoff and today + 1 otherwise;
\* with the cutoff at 23:00, 22:59 gives D+1 and 23:00 gives D+2.
C18_EarliestDate ==
    lastCutoff # NoCutoff =>
        /\ lastCutoff.min_date = EarliestExemptionDate(lastCutoff.at, lastCutoff.cutoff_time)
        /\ lastCutoff.ok =>
              lastCutoff.from_date >= EarliestExemptionDate(lastCutoff.at, lastCutoff.cutoff_time)

\* What does hold: validate_mess_cut_dates follows the configured cutoff, and
\* check_cutoff_rule agrees with it when the cutoff is configured to 23:00
C18_ConfiguredOrDefault ==
    (/\ lastCutoff # NoCutoff
     /\ \/ lastCutoff.fn = "validate_mess_cut_dates"
        \/ lastCutoff.cutoff_time = time_23_0)
        => /\ lastCutoff.min_date
                 = EarliestExemptionDate(lastCutoff.at, lastCutoff.cutoff_time)
           /\ lastCutoff.ok
                 <=> /\ lastCutoff.from_date >= lastCutoff.min_date
                     /\ lastCutoff.from_date <= lastCutoff.to_date

\* C19: every mess cut that gets persisted, through the REST endpoint or the Telegram
\* conversation, has fromDate >= EarliestExemptionDate(now, cutoff), now being the
\* instant of persisting and the cutoff 23:00, and fromDate <= toDate.
C19_PersistedRespectsCutoff ==
    [][\A row \in cuts' \ cuts :
          /\ row.from_date >= EarliestExemptionDate(now, time_23_0)
          /\ row.from_date <= row.to_date]_vars

\* What does hold of a persisted mess cut: fromDate <= toDate; through the REST endpoint
\* fromDate is after the day of persisting, through Telegram it is not before the
\* earliest date computed when the conversation started
C19_PersistedOrdered ==
    [][\A row \in cuts' \ cuts :
          /\ row.from_date <= row.to_date
          /\ \/ row.from_date >= Today + 1
             \/ \E m \in Members : /\ user_data[m].state = "CONFIRM"
                                   /\ row.student = m
                                   /\ row.from_date >= user_data[m].min_date]_vars

\* The REST endpoint alone: a cut for tomorrow is persisted after the cutoff
C19_RestRespectsCutoff ==
    [][\A row \in cuts' \ cuts :
          (\A m \in Members : user_data[m].state # "CONFIRM")
              => row.from_date >= EarliestExemptionDate(now, time_23_0)]_vars

\* The Telegram conversation alone: the confirmation comes after the cutoff has passed
C19_TelegramRespectsCutoff ==
    [][\A row \in cuts' \ cuts :
          (user_data' # user_data)
              => row.from_date >= EarliestExemptionDate(now, time_23_0)]_vars

\* The dates a payment is looked up for: the days of the cycles, the day before, the day after
LookupDays == (0 - 1) .. (MaxDay + 1)

\* The payment cycle grants access on the date
GrantsAccess(p, date) ==
    /\ p.status = "VERIFIED"
    /\ p.cycle_start <= date
    /\ date <= p.cycle_end

\* C20: a payment cycle counts as payment-ok for a date if and only if its status is
\* Verified and cycleStart <= date <= cycleEnd, both bounds inclusive; a cycle in status
\* None, Uploaded or Denied never grants access; a Verified cycle grants access on its
\* first and on its last day.
C20_PaymentOkIff ==
    /\ \A m \in Members, date \in LookupDays :
          /\ get_valid_payment_for_date(m, date) # {}
                <=> \E p \in payments : p.student = m /\ GrantsAccess(p, date)
          /\ \A p \in get_valid_payment_for_date(m, date) :
                p \in payments /\ p.student = m /\ GrantsAccess(p, date)
    /\ \A p \in payments :
          /\ p.status = "VERIFIED"
                => /\ get_valid_payment_for_date(p.student, p.cycle_start) # {}
                   /\ get_valid_payment_for_date(p.student, p.cycle_end) # {}
          /\ (\A q \in payments : q.student = p.student => q.status # "VERIFIED")
                => \A date \in LookupDays : get_valid_payment_for_date(p.student, date) = {}
    /\ (decision # NoDecision /\ IsApproved(decision.student))
          => (decision.result = BLOCKED_NO_PAYMENT
                <=> ~ \E p \in payments : /\ p.student = decision.student
                                          /\ GrantsAccess(p, decision.today))

\* A member was let in on the last day of a verified cycle
C20_Witness ==
    /\ decision # NoDecision
    /\ decision.result = ALLOWED
    /\ \E p \in payments : /\ p.student = decision.student
                           /\ p.status = "VERIFIED"
                           /\ p.cycle_end = decision.today

\* ... on the first day of one
C20_WitnessFirstDay ==
    /\ decision # NoDecision
    /\ decision.result = ALLOWED
    /\ \E p \in payments : /\ p.student = decision.student
                           /\ p.status = "VERIFIED"
                           /\ p.cycle_start = decision.today

\* ... and one whose only cycle covering today is Uploaded was refused
C20_WitnessUploaded ==
    /\ decision # NoDecision
    /\ decision.result = BLOCKED_NO_PAYMENT
    /\ \E p \in payments : /\ p.student = decision.student
                           /\ p.status = "UPLOADED"
                           /\ p.cycle_start <= decision.today
                           /\ decision.today <= p.cycle_end

\* The overall status that goes with a verdict
OverallStatusOf(result) ==
    IF result = BLOCKED_STATUS THEN "NOT_APPROVED"
    ELSE IF result = BLOCKED_NO_PAYMENT THEN "NO_PAYMENT"
    ELSE IF result = BLOCKED_CUT THEN "CUT_OR_CLOSED"
    ELSE "ALLOWED"

\* C21: in every state the overall status of a member's snapshot corresponds to the verdict
\* of the access decision on that state and date: NOT_APPROVED with BlockedStatus,
\* NO_PAYMENT with BlockedNoPayment, CUT_OR_CLOSED with BlockedCut, ALLOWED with Allowed.
C21_SnapshotMatchesVerdict ==
    /\ \A m \in Members, meal \in Meal :
          get_student_snapshot(m).overall_status
              = OverallStatusOf(check_meal_access(m, meal).result)
    /\ decision # NoDecision
          => get_student_snapshot(decision.student).overall_status
                 = OverallStatusOf(decision.result)

\* A member blocked by a closure alone, whose snapshot says CUT_OR_CLOSED
C21_Witness ==
    /\ decision # NoDecision
    /\ decision.result = BLOCKED_CUT
    /\ ~ is_student_cut_for_date(decision.student, decision.today)
    /\ get_student_snapshot(decision.student).overall_status = "CUT_OR_CLOSED"

\* ... and one let in, whose snapshot says ALLOWED
C21_WitnessAllowed ==
    /\ decision # NoDecision
    /\ decision.result = ALLOWED
    /\ get_student_snapshot(decision.student).overall_status = "ALLOWED"

\* The students of the last bulk rotation at which nothing failed
NotFailing ==
    {rotation.order[i] : i \in 1 .. Len(rotation.order)} \ {rotation.fails_at}

\* C22: bulk rotation is best-effort per member: a failure while updating one member does
\* not stop the remaining members from being updated, and the response reports the
\* members' successes and failures (at the least how many were updated), not one outcome
\* for the whole request.
C22_BestEffortPerMember ==
    rotation # NoRotation =>
        /\ \A m \in NotFailing : students[m].qr_version = rotation.epoch
        /\ rotation.response.affected_students
              = Cardinality({m \in Members : /\ \E i \in 1 .. Len(rotation.order) :
                                                   rotation.order[i] = m
                                             /\ students[m].qr_version = rotation.epoch})

\* What does hold: without a failure every approved student is moved to the new epoch and
\* the response counts them; with one, the response is 500 and the students after the
\* failing one keep their version
C22_AllOrPrefix ==
    rotation # NoRotation =>
        /\ rotation.response.status = 200
              => /\ \A i \in 1 .. Len(rotation.order) :
                       students[rotation.order[i]].qr_version = rotation.epoch
                 /\ rotation.response.affected_students = Len(rotation.order)
        /\ rotation.response.status = 500
              => \E k \in 1 .. Len(rotation.order) :
                    /\ rotation.order[k] = rotation.fails_at
                    /\ \A i \in (k + 1) .. Len(rotation.order) :
                          students[rotation.order[i]].qr_version # rotation.epoch

\* What a rotation changes: the epoch, and a student's qr_version and qr_nonce
RotationState(m) ==
    <<get_settings.qr_secret_version, students[m].qr_version, students[m].qr_nonce>>

\* The step is no rotation: the epoch and every student's qr_version stay as they are
NoRotationStep ==
    /\ get_settings'.qr_secret_version = get_settings.qr_secret_version
    /\ \A m \in Members : students'[m].qr_version = students[m].qr_version

\* The payload is of the current epoch and of its student's current version and nonce
Unrotated(r) ==
    /\ r.epoch = get_settings.qr_secret_version
    /\ students[r.member].qr_version = r.epoch
    /\ students[r.member].qr_nonce = NonceOf[r.member]

\* C23: a credential never times out on its own: as long as no global or per-member
\* rotation occurs, a payload that verify_qr_code accepts is accepted at every later
\* time, whatever its issued_at and however much time has passed. Acceptance of a
\* handed-out payload is decided by the rotation state alone, at every instant of the
\* clock, and a step that is no rotation leaves the rotation state as it was.
C23_NeverTimesOut ==
    /\ [](\A r \in issued :
              /\ verify_qr_code(r.payload) \in Members <=> Unrotated(r)
              /\ Unrotated(r) => verify_qr_code(r.payload) = r.member)
    /\ [][NoRotationStep => \A m \in Members : RotationState(m)' = RotationState(m)]_vars

\* A payload issued at instant 0 has just been accepted at the last instant of the clock
C23_Witness ==
    /\ lastVerify # NoVerify
    /\ lastVerify.result \in Members
    /\ now = MaxNow
    /\ split(lastVerify.qr)[3] = str(0)

\* C24: after a staff token is issued, the only field of it that any operation changes
\* is active: token_hash and expires_at (and issued_at, which the token rows here do not
\* carry) keep their issued values.
C24_OnlyActiveChanges ==
    [][\A t \in TokenIds :
          tokens[t].exists =>
              /\ tokens'[t].token_hash = tokens[t].token_hash
              /\ tokens'[t].has_expiry = tokens[t].has_expiry
              /\ tokens'[t].expires_at = tokens[t].expires_at]_vars

\* C25: the meal window does not gate scanning: on one state the verdict is the same for
\* every declared meal, it stays the same through every instant of the same date, and
\* the ScanEvent that is written carries the meal the client declared.
C25_MealDoesNotGate ==
    [][/\ (Today' = Today /\ UNCHANGED <<students, storeVars>>)
            => \A m \in Members, a \in Meal, b \in Meal :
                   check_meal_access(m, a)' = check_meal_access(m, b)
       /\ \A e \in scan_events' \ scan_events : e.meal = scan.meal /\ e.result = scan.result
      ]_vars

\* A scan declared as breakfast has been allowed and recorded as breakfast, and the
\* clock stands at the last instant of the day
C25_Witness ==
    /\ scan.pc = "done"
    /\ scan.meal = "BREAKFAST"
    /\ scan.result = ALLOWED
    /\ now % TicksPerDay = TicksPerDay - 1
    /\ \E e \in scan_events : e.request = scan.n /\ e.meal = "BREAKFAST" /\ e.result = ALLOWED

\* C26: computing a verdict or a snapshot never mutates state: a call of
\* check_meal_access, of get_student_snapshot or of the student_snapshot endpoint leaves
\* every student, payment, mess cut, closure, staff token and scan event as it was and
\* creates no ScanEvent; only scan_qr adds a ScanEvent.
C26_QueriesAreReadOnly ==
    [][/\ (decision' # NoDecision \/ preview' # NoPreview)
            => UNCHANGED <<students, payments, cuts, closures, tokens, scan_events>>
       /\ scan.pc = "respond" /\ scan'.pc = "done"
            => UNCHANGED <<students, payments, cuts, closures, tokens, scan_events>>
       /\ scan_events' # scan_events => scan.pc = "record" /\ scan'.pc = "respond"
      ]_vars

\* The endpoint has answered with an ALLOWED snapshot of a student and no ScanEvent exists
C26_Witness ==
    /\ preview # NoPreview
    /\ preview.status = 200
    /\ preview.snapshot.overall_status = "ALLOWED"
    /\ scan_events = {}

\* check_meal_access has returned a denial and no ScanEvent exists
C26_WitnessDecide ==
    /\ decision # NoDecision
    /\ decision.result = BLOCKED_NO_PAYMENT
    /\ scan_events = {}

\* C27: verification performs no side effects: for every payload and every starting
\* state, a store without a settings row included, the persisted state after
\* verify_qr_code returns is the state before the call.
C27_VerifyLeavesStore ==
    [][lastVerify' # NoVerify
          => UNCHANGED <<students, settings, payments, cuts, closures, tokens, scan_events>>
      ]_vars

\* Verification changes nothing but the settings table, where it creates the missing row
C27_CreatesOnlySettings ==
    [][lastVerify' # NoVerify
          => /\ UNCHANGED <<students, payments, cuts, closures, tokens, scan_events>>
             /\ settings' # settings
                   => /\ ~ settings.exists
                      /\ settings' = [exists |-> TRUE, qr_secret_version |-> 1]
                      /\ Len(split(lastVerify'.qr)) = 5
      ]_vars

\* The calendar date and the time of day of the facility's wall clock at the instant at
LocalDate(at) == (at + UtcOffset) \div TicksPerDay

LocalTimeOfDay(at) == (at + UtcOffset) % TicksPerDay

\* C28: the today of the access decision and the date and time of day of the cutoff rule
\* are those of the facility's time zone: the day rolls over at local midnight, and the
\* earliest exemption date switches from D+1 to D+2 at 23:00 local time on local day D.
C28_FacilityZone ==
    /\ decision # NoDecision => decision.today = LocalDate(now)
    /\ lastCutoff # NoCutoff =>
          lastCutoff.min_date = LocalDate(lastCutoff.at)
                                   + (IF LocalTimeOfDay(lastCutoff.at) >= time_23_0
                                      THEN 2 ELSE 1)

\* What does hold: both read the date and the time of day of the UTC clock
C28_UtcDate ==
    /\ decision # NoDecision => decision.today = now \div TicksPerDay
    /\ lastCutoff # NoCutoff =>
          lastCutoff.min_date = EarliestExemptionDate(lastCutoff.at, time_23_0)

\* C29: the verdict of a scan and the snapshot returned with it reflect one state of the
\* student, payment, mess cut and closure records, also when records are created
\* concurrently: a snapshot returned with an ALLOWED verdict has overall status ALLOWED.
C29_SnapshotOfVerdictState ==
    (Answered /\ scan.response.result = ALLOWED)
        => /\ scan.response.student_snapshot.overall_status = "ALLOWED"
           /\ scan.response.student_snapshot.payment_ok
           /\ ~ scan.response.student_snapshot.today_cut
           /\ ~ scan.response.student_snapshot.closure_today

\* C30: every ScanEvent written by a scan that was authenticated with a staff bearer token
\* references that token: its staff_token is the authenticating token, not null and not
\* another token.
C30_EventNamesToken ==
    \A e \in EventsOfRequest :
        /\ e.staff_token # None
        /\ e.staff_token \in TokenIds
        /\ tokens[e.staff_token].token_hash = sha256(scan.key)

\* What does hold: no ScanEvent references a staff token
C30_EventsWithoutToken == \A e \in scan_events : e.staff_token = None

====
